---- MODULE Spec2Model ----
(***************************************************************************)
(* Page-level extraction pipeline of the n2n portal: the Credit Ledger     *)
(* (practice_credits + use_parsing_credit / refund_parsing_credit), the    *)
(* Job Store (eob_documents, eob_page_jobs and the enqueue / succeed /     *)
(* fail RPCs), the Split & Enqueue Orchestrator (eob-enqueue), the         *)
(* Extraction Worker's terminal transitions and the Recovery Sweeper.      *)
(***************************************************************************)
EXTENDS Integers, Sequences, FiniteSets, TLC

(***************************************************************************)
(* Bounds of the model.                                                    *)
(***************************************************************************)
MaxBalance == 2     \* largest initial credits_remaining of a practice
MaxAmount  == 2     \* largest p_amount of a ledger call
NumCalls   == 3     \* concurrent use_parsing_credit calls in SpecLedger
MaxRefunds == 2     \* refund_parsing_credit calls in SpecLedger

MaxPages   == 2     \* largest admissible page count of the uploaded PDF
MaxOrchRuns == 2    \* eob-enqueue invocations for the document
MaxSweeps  == 2     \* eob-sweeper passes (they may overlap)
MaxItems   == 1     \* largest p_items_extracted of one page
MaxInvocations == 3 \* eob-enqueue invocations plus eob-sweeper passes in one behaviour
MaxWorkerRuns == 3  \* eob-worker invocations in SpecWorker
MaxRaw == 2         \* items in one extraction response (SpecStore)
MaxStoreRuns == 2   \* eob-worker invocations in SpecStore
MaxReprocess == 2   \* reprocess-document invocations
MaxRows == 3        \* line items of one Document handed to the encoder
MaxDocs == 2        \* Documents of one generation request
MaxExports == 2     \* generate-835 invocations
MaxDedup == 3       \* items of one list handed to deduplicateItems (beyond pairs)

(***************************************************************************)
(* Program constants.                                                      *)
(***************************************************************************)
MAX_PAGES_PER_DOC  == 500
max_attempts       == 3
GEMINI_MAX_RETRIES == 2

Tenants == {"p1", "p2"}
CallIds == 1..NumCalls
Pages   == 1..MaxPages
OrchIds == 1..MaxOrchRuns
SweepIds == 1..MaxSweeps
WorkerIds == 1..MaxWorkerRuns
DocPractice == "p1"   \* practice_id of the document and of every request for it

VARIABLES
  credits,      \* practice_credits: practice_id -> credits_remaining (rows that exist)
  rowLock,      \* practice_credits row locks: practice_id -> holder call id, 0 = free
  calls,        \* use_parsing_credit calls in progress (SpecLedger)
  credits0,     \* history: the balances at Init
  refundCount,  \* history: refund_parsing_credit calls made, per practice
  pdfPages,     \* page count of the document's PDF (pdfDoc.getPageCount())
  doc,          \* the eob_documents row
  jobs,         \* eob_page_jobs rows of the document: page_number -> row
  objects,      \* page objects in the eob-pages bucket (page numbers)
  orch,         \* eob-enqueue invocations
  inflight,     \* eob-worker invocations dispatched by eob-enqueue, per page
  sweep,        \* eob-sweeper passes
  hist,         \* history: charges, refunds and Worker failures
  workers,      \* eob-worker invocations followed call by call (SpecWorker, SpecStore)
  lineItems,    \* BigQuery line-item table: page_number -> bag of rows (SpecStore)
  reproc,       \* the reprocess-document invocation (SpecReprocess)
  export        \* generate-835: practice profile, export stamp, invocation (SpecExport)

ledgerVars == <<credits, rowLock, calls, credits0, refundCount>>
pipeVars == <<pdfPages, doc, jobs, objects, orch, inflight, sweep, hist, workers, lineItems,
              reproc, export>>
vars == <<credits, rowLock, calls, credits0, refundCount,
          pdfPages, doc, jobs, objects, orch, inflight, sweep, hist, workers, lineItems,
          reproc, export>>

(***************************************************************************)
(* Credit Ledger, statement by statement (SpecLedger).                     *)
(* A call is a plpgsql transaction: SELECT ... FOR UPDATE takes the row    *)
(* lock and reads the balance; the lock is held until the function         *)
(* returns (commit).                                                       *)
(***************************************************************************)

\* SELECT credits_remaining INTO v_balance ... FOR UPDATE: may the call take the row?
use_parsing_credit_mayLock_NoLock(t, c) == TRUE

use_parsing_credit_mayLock(t, c) == rowLock[t] = 0

\* IF v_balance < p_amount THEN RETURN false
use_parsing_credit_insufficient_NoCheck(v_balance, p_amount) == FALSE

use_parsing_credit_insufficient(v_balance, p_amount) == v_balance < p_amount

\* SELECT ... FOR UPDATE on an existing row
use_parsing_credit_Select(c) ==
  LET t == calls[c].practice IN
  /\ calls[c].pc = "select"
  /\ t \in DOMAIN credits
  /\ use_parsing_credit_mayLock(t, c)
  /\ rowLock' = [rowLock EXCEPT ![t] = c]
  /\ calls' = [calls EXCEPT ![c].pc = "check", ![c].v_balance = credits[t]]
  /\ UNCHANGED <<credits, credits0, refundCount, pipeVars>>

\* no row: v_balance IS NULL -> RAISE EXCEPTION 'Practice not found'
use_parsing_credit_NotFound(c) ==
  LET t == calls[c].practice IN
  /\ calls[c].pc = "select"
  /\ t \notin DOMAIN credits
  /\ calls' = [calls EXCEPT ![c].pc = "done", ![c].result = "error"]
  /\ UNCHANGED <<credits, rowLock, credits0, refundCount, pipeVars>>

\* v_balance < p_amount: RETURN false (the transaction ends, the lock is released)
use_parsing_credit_ReturnFalse(c) ==
  LET t == calls[c].practice IN
  /\ calls[c].pc = "check"
  /\ use_parsing_credit_insufficient(calls[c].v_balance, calls[c].amount)
  /\ calls' = [calls EXCEPT ![c].pc = "done", ![c].result = "false"]
  /\ rowLock' = [rowLock EXCEPT ![t] = IF @ = c THEN 0 ELSE @]
  /\ UNCHANGED <<credits, credits0, refundCount, pipeVars>>

\* UPDATE ... SET credits_remaining = credits_remaining - p_amount; RETURN true
use_parsing_credit_Update(c) ==
  LET t == calls[c].practice IN
  /\ calls[c].pc = "check"
  /\ ~use_parsing_credit_insufficient(calls[c].v_balance, calls[c].amount)
  /\ credits' = [credits EXCEPT ![t] = @ - calls[c].amount]
  /\ calls' = [calls EXCEPT ![c].pc = "done", ![c].result = "true"]
  /\ rowLock' = [rowLock EXCEPT ![t] = IF @ = c THEN 0 ELSE @]
  /\ UNCHANGED <<credits0, refundCount, pipeVars>>

\* refund_parsing_credit: one UPDATE adding 1; it matches no row (a no-op)
\* when the practice has no practice_credits row
refund_parsing_credit(C, t) ==
  IF t \in DOMAIN C THEN [C EXCEPT ![t] = @ + 1] ELSE C

\* a refund_parsing_credit call; its UPDATE waits for the row lock
refund_parsing_credit_Call(t) ==
  /\ refundCount["p1"] + refundCount["p2"] < MaxRefunds
  /\ rowLock[t] = 0
  /\ credits' = refund_parsing_credit(credits, t)
  /\ refundCount' = [refundCount EXCEPT ![t] = @ + 1]
  /\ UNCHANGED <<rowLock, calls, credits0, pipeVars>>

\* call ids are interchangeable: the calls are listed in a canonical order
CallRank(c) == (IF c.practice = "p1" THEN 0 ELSE MaxAmount) + c.amount

InitDoc == [status |-> "pending", total_pages |-> 0, items_extracted |-> 0, stale |-> FALSE]
InitOrch == [pc |-> "start", page |-> 1, enqueued |-> {}, seen |-> "none"]
\* fired: the pages this pass has called fireWorker for, until its last
\* dispatch is over
InitSweep == [pc |-> "idle", todo |-> {}, cur |-> 0, fired |-> {},
              orphan |-> FALSE, orphanPages |-> 0]
InitHist == [charged |-> 0, refundedOrch |-> 0, refundedSweep |-> 0,
             failedRuns |-> [p \in Pages |-> 0]]
InitWorker == [pc |-> "idle", page |-> 0, attempt |-> 0, calls |-> 0]

\* reprocess-document before its invocation; attempts: the attempt_count of
\* the job rows it deleted, per page
InitReproc == [pc |-> "idle", runs |-> 0, run |-> 0, attempts |-> [p \in Pages |-> 0]]

\* generate-835 before its invocation: the practice profile, the requested
\* Documents that carry the export stamp (locked: last_exported_at and
\* export_batch_id set), the request, the handler's loop variables, the
\* file it builds, and the numbers of files returned and stamps written
InitExport == [pc |-> "idle", profile |-> "complete",
               practice |-> [address_line1 |-> TRUE, city_state_zip |-> TRUE],
               locked |-> {},
               isBatch |-> FALSE, docs |-> << >>, i |-> 0,
               transactionCount |-> 0, allTransactionSegments |-> << >>,
               encoded |-> << >>, file |-> << >>,
               runs |-> 0, files |-> 0, stamps |-> 0]

\* rows of the line-item table: the insertId index and the item's composite key
ItemKeys == {"a", "nokey"}
RowIds == [idx : 1..MaxRaw, key : ItemKeys]
NoRows == [r \in RowIds |-> 0]
NoLineItems == [p \in Pages |-> NoRows]

InitPipeIdle ==
  /\ pdfPages = 0
  /\ doc = InitDoc
  /\ jobs = << >>
  /\ objects = {}
  /\ orch = [o \in OrchIds |-> InitOrch]
  /\ inflight = [p \in Pages |-> 0]
  /\ sweep = [s \in SweepIds |-> InitSweep]
  /\ hist = InitHist
  /\ workers = [w \in WorkerIds |-> InitWorker]
  /\ lineItems = NoLineItems
  /\ reproc = InitReproc
  /\ export = InitExport

InitLedger ==
  /\ \E S \in {Tenants, {"p1"}} :
       credits \in {C \in [S -> 0..MaxBalance] : "p2" \in S => C["p2"] = MaxBalance}
  /\ credits0 = credits
  /\ rowLock = [t \in Tenants |-> 0]
  /\ calls \in {cs \in [CallIds -> [pc : {"select"}, practice : Tenants, amount : 1..MaxAmount,
                                     v_balance : {0}, result : {"none"}]] :
                  \A c \in CallIds : c < NumCalls => CallRank(cs[c]) <= CallRank(cs[c + 1])}
  /\ refundCount = [t \in Tenants |-> 0]
  /\ InitPipeIdle

NextLedger ==
  \/ \E c \in CallIds : use_parsing_credit_Select(c)
  \/ \E c \in CallIds : use_parsing_credit_NotFound(c)
  \/ \E c \in CallIds : use_parsing_credit_ReturnFalse(c)
  \/ \E c \in CallIds : use_parsing_credit_Update(c)
  \/ \E t \in Tenants : refund_parsing_credit_Call(t)

SpecLedger == InitLedger /\ [][NextLedger]_vars

(***************************************************************************)
(* Job Store RPCs as transactions over (eob_page_jobs, eob_documents).     *)
(* A row carries two staleness flags instead of timestamps: createdStale   *)
(* (created_at is older than the Sweeper's windows) and updatedStale /     *)
(* stale (updated_at is); every write of updated_at = now() clears the     *)
(* latter, TimePasses sets them.                                           *)
(***************************************************************************)

use_parsing_credit_DebitsAnyway(C, t, p_amount) ==
  IF t \notin DOMAIN C THEN [result |-> "error", credits |-> C]
  ELSE [result |-> IF C[t] < p_amount THEN "false" ELSE "true",
        credits |-> [C EXCEPT ![t] = @ - p_amount]]

\* use_parsing_credit as one transaction (the row lock serialises the calls)
use_parsing_credit(C, t, p_amount) ==
  IF t \notin DOMAIN C THEN [result |-> "error", credits |-> C]
  ELSE IF use_parsing_credit_insufficient(C[t], p_amount)
         THEN [result |-> "false", credits |-> C]
         ELSE [result |-> "true", credits |-> [C EXCEPT ![t] = @ - p_amount]]

\* enqueue_eob_page_job: INSERT ... ON CONFLICT (eob_document_id, page_number)
\* DO UPDATE SET updated_at = now()
enqueue_eob_page_job(J, p, p_total_pages) ==
  IF p \in DOMAIN J
    THEN [J EXCEPT ![p].updatedStale = FALSE]
    ELSE [q \in DOMAIN J \cup {p} |->
            IF q = p
              THEN [status |-> "queued", attempt_count |-> 0, items_extracted |-> 0,
                    total_pages |-> p_total_pages,
                    createdStale |-> FALSE, updatedStale |-> FALSE]
              ELSE J[q]]

\* the rows after enqueue_eob_page_job ran for pages 1..n
RECURSIVE enqueue_pages(_, _)
enqueue_pages(k, p_total_pages) ==
  IF k = 0 THEN << >>
  ELSE enqueue_eob_page_job(enqueue_pages(k - 1, p_total_pages), k, p_total_pages)

enqueue_all(n) == enqueue_pages(n, n)

RECURSIVE SumItems(_, _)
SumItems(J, S) ==
  IF S = {} THEN 0
  ELSE LET q == CHOOSE x \in S : TRUE IN J[q].items_extracted + SumItems(J, S \ {q})

succeeded_count(J) == Cardinality({q \in DOMAIN J : J[q].status = "succeeded"})
terminal_count(J)  == Cardinality({q \in DOMAIN J : J[q].status \in {"succeeded", "failed"}})
succeeded_items(J) == SumItems(J, {q \in DOMAIN J : J[q].status = "succeeded"})

\* Step 6 of succeed_eob_page_job, and fail_eob_page_job's
\* IF v_terminal_count >= v_total_pages
rollup_due(v_terminal_count, v_total_pages) == v_terminal_count >= v_total_pages

\* succeed_eob_page_job: IF v_succeeded_count >= v_total_pages ... ELSE ...
succeed_rollup_status(v_succeeded_count, v_total_pages) ==
  IF v_succeeded_count >= v_total_pages THEN "completed" ELSE "partial_failure"

\* fail_eob_page_job: IF v_succeeded_count > 0 ... ELSE ...
fail_rollup_status_AlwaysFailed(v_succeeded_count) == "failed"

fail_rollup_status(v_succeeded_count) ==
  IF v_succeeded_count > 0 THEN "partial_failure" ELSE "failed"

succeed_eob_page_job_CountsAttempt(J, D, p, p_items_extracted) ==
  [jobs |-> [J EXCEPT ![p].status = "succeeded",
                      ![p].items_extracted = p_items_extracted,
                      ![p].attempt_count = @ + 1,
                      ![p].updatedStale = FALSE],
   doc |-> D]

\* succeed_eob_page_job(p_page_job_id, p_items_extracted): steps 1-6
succeed_eob_page_job(J, D, p, p_items_extracted) ==
  LET J1 == [J EXCEPT ![p].status = "succeeded",
                      ![p].items_extracted = p_items_extracted,
                      ![p].updatedStale = FALSE]
      v_total_pages == J1[p].total_pages
      D1 == [D EXCEPT !.items_extracted = succeeded_items(J1), !.stale = FALSE]
      D2 == IF rollup_due(terminal_count(J1), v_total_pages)
              THEN [D1 EXCEPT !.status =
                      succeed_rollup_status(succeeded_count(J1), v_total_pages)]
              ELSE D1
  IN [jobs |-> J1, doc |-> D2]

\* fail_eob_page_job step 1: SELECT attempt_count + 1
fail_next_attempt_count(attempt_count) == attempt_count + 1

\* fail_eob_page_job step 2: CASE WHEN v_attempt_count >= v_max_attempts ...
fail_new_status(v_attempt_count, v_max_attempts) ==
  IF v_attempt_count >= v_max_attempts THEN "failed" ELSE "retryable"

\* the Document status the rollup of the two RPCs leaves once every job of
\* J is terminal
succeed_rollup_or_failed(J, v_total_pages) ==
  IF succeeded_count(J) > 0
    THEN succeed_rollup_status(succeeded_count(J), v_total_pages)
    ELSE fail_rollup_status(succeeded_count(J))

\* fail_eob_page_job(p_page_job_id): steps 1-4
fail_eob_page_job(J, D, p) ==
  LET v_attempt_count == fail_next_attempt_count(J[p].attempt_count)
      v_new_status == fail_new_status(v_attempt_count, max_attempts)
      J1 == [J EXCEPT ![p].status = v_new_status,
                      ![p].attempt_count = v_attempt_count,
                      ![p].updatedStale = FALSE]
      v_total_pages == J1[p].total_pages
      D1 == IF v_new_status = "failed" /\ rollup_due(terminal_count(J1), v_total_pages)
              THEN IF fail_rollup_status(succeeded_count(J1)) = "partial_failure"
                     THEN [D EXCEPT !.status = "partial_failure",
                                    !.items_extracted = succeeded_items(J1),
                                    !.stale = FALSE]
                     ELSE [D EXCEPT !.status = fail_rollup_status(succeeded_count(J1)),
                                    !.stale = FALSE]
              ELSE D
  IN [jobs |-> J1, doc |-> D1]

(***************************************************************************)
(* Split & Enqueue Orchestrator (eob-enqueue).  One action per effect on   *)
(* the ledger, the Job Store or the bucket; the download and the PDF       *)
(* parsing touch none of them and are decided in the admission step.       *)
(***************************************************************************)
DocTerminal(st) == st \in {"completed", "partial_failure", "failed"}

\* !Number.isFinite(totalPages) || totalPages < 1
no_pages_AcceptsEmpty(totalPages) == FALSE

no_pages(totalPages) == totalPages < 1

\* totalPages > MAX_PAGES_PER_DOC
too_many_pages(totalPages) == totalPages > MAX_PAGES_PER_DOC

\* invocations started so far
Started ==
  Cardinality({o \in OrchIds : orch[o].pc # "start"}) +
  Cardinality({s \in SweepIds : sweep[s].pc # "idle"})

\* run ids are interchangeable: run o starts after run o - 1 has started
OrchMayStart(o) ==
  /\ orch[o].pc = "start"
  /\ IF o = 1 THEN TRUE ELSE orch[o - 1].pc # "start"
  /\ Started < MaxInvocations

SetOrch(o, r) == orch' = [orch EXCEPT ![o] = r]

\* missing source, failed download or unparsable PDF: 400 before any charge
OrchRejectSource(o) ==
  /\ OrchMayStart(o)
  /\ SetOrch(o, [orch[o] EXCEPT !.pc = "rejected"])
  /\ UNCHANGED <<export, reproc, lineItems, ledgerVars, pdfPages, doc, jobs, objects, inflight, sweep, hist, workers>>

\* page count checks: 400 "PDF has no pages", 413 "exceeds maximum limit"
OrchRejectPages(o) ==
  /\ OrchMayStart(o)
  /\ no_pages(pdfPages) \/ too_many_pages(pdfPages)
  /\ SetOrch(o, [orch[o] EXCEPT !.pc = "rejected"])
  /\ UNCHANGED <<export, reproc, lineItems, ledgerVars, pdfPages, doc, jobs, objects, inflight, sweep, hist, workers>>

\* 3) use_parsing_credit(practice_id, totalPages)
OrchCharge(o) ==
  /\ OrchMayStart(o)
  /\ ~no_pages(pdfPages) /\ ~too_many_pages(pdfPages)
  /\ LET r == use_parsing_credit(credits, DocPractice, pdfPages) IN
       /\ credits' = r.credits
       /\ IF r.result = "true"
            THEN /\ SetOrch(o, [orch[o] EXCEPT !.pc = "docupdate"])
                 /\ hist' = [hist EXCEPT !.charged = @ + pdfPages]
            ELSE /\ SetOrch(o, [orch[o] EXCEPT !.pc = "rejected"])
                 /\ UNCHANGED hist
  /\ UNCHANGED <<export, reproc, lineItems, rowLock, calls, credits0, refundCount, pdfPages, doc, jobs, objects,
                 inflight, sweep, workers>>

\* refundCredits(): one refund_parsing_credit call, then the 500 response
OrchFailAfterCharge(o) ==
  /\ credits' = refund_parsing_credit(credits, DocPractice)
  /\ hist' = [hist EXCEPT !.refundedOrch = @ + 1]
  /\ SetOrch(o, [orch[o] EXCEPT !.pc = "error", !.page = 1, !.enqueued = {}])

\* 4) update eob_documents: status queued, total_pages
OrchDocUpdate(o) ==
  /\ orch[o].pc = "docupdate"
  /\ doc' = [doc EXCEPT !.status = "queued", !.total_pages = pdfPages, !.stale = FALSE]
  /\ SetOrch(o, [orch[o] EXCEPT !.pc = "pages", !.page = 1])
  /\ UNCHANGED <<export, reproc, lineItems, ledgerVars, pdfPages, jobs, objects, inflight, sweep, hist, workers>>

OrchDocUpdateFail(o) ==
  /\ orch[o].pc = "docupdate"
  /\ OrchFailAfterCharge(o)
  /\ UNCHANGED <<export, reproc, lineItems, rowLock, calls, credits0, refundCount, pdfPages, doc, jobs, objects,
                 inflight, sweep, workers>>

InPageLoop(o) == orch[o].pc = "pages" /\ orch[o].page <= pdfPages

NextPage(o, r) ==
  SetOrch(o, [r EXCEPT !.page = @ + 1,
                       !.pc = IF orch[o].page + 1 > pdfPages THEN "dispatch" ELSE "pages"])

\* A. the page object is uploaded unless the listing showed it (the listing
\*    is taken before the loop and may be empty after a list error, so an
\*    existing object may be uploaded again: upsert)
UploadedObjects(o) == objects \cup {orch[o].page}

\* A + B: the page object exists or is uploaded; a job row is found: continue
OrchPageSkip(o) ==
  /\ InPageLoop(o)
  /\ orch[o].page \in DOMAIN jobs
  /\ objects' = UploadedObjects(o)
  /\ NextPage(o, orch[o])
  /\ UNCHANGED <<export, reproc, lineItems, ledgerVars, pdfPages, doc, jobs, inflight, sweep, hist, workers>>

\* A + C: enqueue_eob_page_job.  It is also reached for an existing row when
\*    the existence check errors (jobCheckErr is only logged) or ran before
\*    another invocation's enqueue; the RPC then returns the existing id.
OrchPageEnqueue(o) ==
  /\ InPageLoop(o)
  /\ objects' = UploadedObjects(o)
  /\ jobs' = enqueue_eob_page_job(jobs, orch[o].page, pdfPages)
  /\ NextPage(o, [orch[o] EXCEPT !.enqueued = @ \cup {orch[o].page}])
  /\ UNCHANGED <<export, reproc, lineItems, ledgerVars, pdfPages, doc, inflight, sweep, hist, workers>>

\* A fails: uploadErr
OrchPageUploadFail(o) ==
  /\ InPageLoop(o)
  /\ OrchFailAfterCharge(o)
  /\ UNCHANGED <<export, reproc, lineItems, rowLock, calls, credits0, refundCount, pdfPages, doc, jobs, objects,
                 inflight, sweep, workers>>

\* C fails: enqueueErr (the page object is in the bucket by then)
OrchPageEnqueueFail(o) ==
  /\ InPageLoop(o)
  /\ objects' = UploadedObjects(o)
  /\ OrchFailAfterCharge(o)
  /\ UNCHANGED <<export, reproc, lineItems, rowLock, calls, credits0, refundCount, pdfPages, doc, jobs,
                 inflight, sweep, workers>>

\* 7) fire the Worker for the next enqueued job; the fetch is not awaited
\*    beyond the dispatch timeout and its failure is swallowed.  A dispatch
\*    that is not accepted also stands for an invocation that dies before
\*    its final RPC, or whose fail_eob_page_job RPC errors (only logged)
NextToDispatch(o) == CHOOSE p \in orch[o].enqueued : \A q \in orch[o].enqueued : p <= q

OrchDispatch(o) ==
  /\ orch[o].pc = "dispatch"
  /\ orch[o].enqueued # {}
  /\ LET p == NextToDispatch(o) IN
       /\ \E accepted \in BOOLEAN :
            inflight' = [inflight EXCEPT ![p] = IF accepted THEN @ + 1 ELSE @]
       /\ SetOrch(o, [orch[o] EXCEPT !.enqueued = @ \ {p}])
  /\ UNCHANGED <<export, reproc, lineItems, ledgerVars, pdfPages, doc, jobs, objects, sweep, hist, workers>>

\* 8) final status check: select status ...
OrchFinalRead(o) ==
  /\ orch[o].pc = "dispatch"
  /\ orch[o].enqueued = {}
  /\ SetOrch(o, [orch[o] EXCEPT !.pc = "finalwrite", !.seen = doc.status])
  /\ UNCHANGED <<export, reproc, lineItems, ledgerVars, pdfPages, doc, jobs, objects, inflight, sweep, hist, workers>>

\*    ... then update status to processing unless the status read was terminal
OrchFinalWrite(o) ==
  /\ orch[o].pc = "finalwrite"
  /\ doc' = IF DocTerminal(orch[o].seen) THEN doc
            ELSE [doc EXCEPT !.status = "processing", !.stale = FALSE]
  /\ SetOrch(o, [orch[o] EXCEPT !.pc = "done", !.seen = "none"])
  /\ UNCHANGED <<export, reproc, lineItems, ledgerVars, pdfPages, jobs, objects, inflight, sweep, hist, workers>>

OrchStep(o) ==
  \/ OrchRejectSource(o)
  \/ OrchRejectPages(o)
  \/ OrchCharge(o)
  \/ OrchDocUpdate(o)
  \/ OrchDocUpdateFail(o)
  \/ OrchPageSkip(o)
  \/ OrchPageEnqueue(o)
  \/ OrchPageUploadFail(o)
  \/ OrchPageEnqueueFail(o)
  \/ OrchDispatch(o)
  \/ OrchFinalRead(o)
  \/ OrchFinalWrite(o)

(***************************************************************************)
(* Extraction Worker (eob-worker), as the Job Store sees it.  An           *)
(* invocation reads nothing from the Job Store before its final RPC, so in *)
(* the pipeline it is one step, taken when that RPC runs:                  *)
(* succeed_eob_page_job at the end of the try block, or fail_eob_page_job  *)
(* from the catch block.  SpecWorker below follows an invocation call by   *)
(* call.                                                                   *)
(***************************************************************************)

\* catch (err): fail_eob_page_job is called once, however many extraction
\* calls the invocation made
catch_fail_calls_PerGeminiCall(geminiCalls) == geminiCalls

catch_fail_calls(geminiCalls) == 1

RECURSIVE ApplyFail(_, _, _, _)
ApplyFail(J, D, p, k) ==
  IF k = 0 THEN [jobs |-> J, doc |-> D]
  ELSE LET r == fail_eob_page_job(J, D, p) IN ApplyFail(r.jobs, r.doc, p, k - 1)

\* STEP 5 / the blank-page branch: succeed_eob_page_job with n items
WorkerSucceeds(p, n) ==
  /\ LET r == succeed_eob_page_job(jobs, doc, p, n) IN
       /\ jobs' = r.jobs
       /\ doc' = r.doc
  /\ UNCHANGED hist

\* the catch block of an invocation that made geminiCalls extraction calls
WorkerFails(p, geminiCalls) ==
  LET r == ApplyFail(jobs, doc, p, catch_fail_calls(geminiCalls))
  IN /\ jobs' = r.jobs
     /\ doc' = r.doc
     /\ hist' = [hist EXCEPT !.failedRuns[p] = @ + 1]

\* a Worker dispatched by eob-enqueue returns
WorkerSucceed(p) ==
  /\ inflight[p] > 0
  /\ \E n \in 0..MaxItems : WorkerSucceeds(p, n)
  /\ inflight' = [inflight EXCEPT ![p] = @ - 1]
  /\ UNCHANGED <<export, reproc, lineItems, ledgerVars, pdfPages, objects, orch, sweep, workers>>

WorkerFail(p) ==
  /\ inflight[p] > 0
  /\ \E geminiCalls \in 1..(GEMINI_MAX_RETRIES + 1) : WorkerFails(p, geminiCalls)
  /\ inflight' = [inflight EXCEPT ![p] = @ - 1]
  /\ UNCHANGED <<export, reproc, lineItems, ledgerVars, pdfPages, objects, orch, sweep, workers>>

(***************************************************************************)
(* Recovery Sweeper (eob-sweeper).  fireWorker awaits the Worker, so the   *)
(* Worker's RPC is the Sweeper's own step.                                 *)
(***************************************************************************)
SetSweep(s, r) == sweep' = [sweep EXCEPT ![s] = r]

\* a stuck-queued repair that finds no job
stuck_queued_None(J) == {}

\* 1) status = queued and created_at older than 5 minutes
stuck_queued(J) == {p \in DOMAIN J : J[p].status = "queued" /\ J[p].createdStale}

\* 2) status = retryable and updated_at older than 2 minutes
retryable_idle(J) == {p \in DOMAIN J : J[p].status = "retryable" /\ J[p].updatedStale}

\* an orphaned-documents repair that finds no Document
orphan_candidate_None(D) == FALSE

\* 3) status in (processing, queued) and updated_at older than 5 minutes
orphan_candidate(D) == D.status \in {"processing", "queued"} /\ D.stale

\* pass ids are interchangeable.  Passes are triggered every five minutes:
\* pass s starts when pass s - 1 has reached its last repair (the orphaned
\* documents) or has returned, so two passes overlap in that repair only
SweepStart(s) ==
  /\ sweep[s].pc = "idle"
  /\ IF s = 1 THEN TRUE ELSE sweep[s - 1].pc \in {"orphan", "done"}
  /\ Started < MaxInvocations
  /\ SetSweep(s, [sweep[s] EXCEPT !.pc = "stuck", !.todo = stuck_queued(jobs)])
  /\ UNCHANGED <<export, reproc, lineItems, ledgerVars, pdfPages, doc, jobs, objects, orch, inflight, hist, workers>>

\* the outcome of fireWorker for page p
SweepWorker(p) ==
  \/ \E n \in 0..MaxItems : WorkerSucceeds(p, n)
  \/ \E geminiCalls \in 1..(GEMINI_MAX_RETRIES + 1) : WorkerFails(p, geminiCalls)
  \/ UNCHANGED <<export, reproc, lineItems, doc, jobs, hist>>

SweepStuckFire(s) ==
  /\ sweep[s].pc = "stuck"
  /\ \E p \in sweep[s].todo :
       /\ SweepWorker(p)
       /\ SetSweep(s, [sweep[s] EXCEPT !.todo = @ \ {p}, !.fired = @ \cup {p}])
  /\ UNCHANGED <<export, reproc, lineItems, ledgerVars, pdfPages, objects, orch, inflight, workers>>

SweepRetryQuery(s) ==
  /\ sweep[s].pc = "stuck"
  /\ sweep[s].todo = {}
  /\ SetSweep(s, [sweep[s] EXCEPT !.pc = "retry", !.todo = retryable_idle(jobs)])
  /\ UNCHANGED <<export, reproc, lineItems, ledgerVars, pdfPages, doc, jobs, objects, orch, inflight, hist, workers>>

\* update({ status: "queued", updated_at }).eq("id", job.id)
SweepRetryReset(s) ==
  /\ sweep[s].pc = "retry"
  /\ \E p \in sweep[s].todo :
       /\ jobs' = [jobs EXCEPT ![p].status = "queued", ![p].updatedStale = FALSE]
       /\ SetSweep(s, [sweep[s] EXCEPT !.pc = "retryfire", !.cur = p, !.todo = @ \ {p}])
  /\ UNCHANGED <<export, reproc, lineItems, ledgerVars, pdfPages, doc, objects, orch, inflight, hist, workers>>

SweepRetryFire(s) ==
  /\ sweep[s].pc = "retryfire"
  /\ SweepWorker(sweep[s].cur)
  /\ SetSweep(s, [sweep[s] EXCEPT !.pc = "retry", !.cur = 0,
                                   !.fired = @ \cup {sweep[s].cur}])
  /\ UNCHANGED <<export, reproc, lineItems, ledgerVars, pdfPages, objects, orch, inflight, workers>>

SweepOrphanQuery(s) ==
  /\ sweep[s].pc = "retry"
  /\ sweep[s].todo = {}
  /\ SetSweep(s, [sweep[s] EXCEPT !.pc = "orphan", !.fired = {},
                    !.orphan = orphan_candidate(doc),
                    !.orphanPages = IF orphan_candidate(doc) THEN doc.total_pages ELSE 0])
  /\ UNCHANGED <<export, reproc, lineItems, ledgerVars, pdfPages, doc, jobs, objects, orch, inflight, hist, workers>>

\* doc.total_pages || totalJobs
orphan_required(total_pages, J) ==
  IF total_pages # 0 THEN total_pages ELSE Cardinality(DOMAIN J)

\* totalJobs > 0 and terminalJobs >= (doc.total_pages || totalJobs)
orphan_finalizable(total_pages, J) ==
  /\ Cardinality(DOMAIN J) # 0
  /\ terminal_count(J) >= orphan_required(total_pages, J)

\* RECURSIVE loop: for (i = 0; i < refundAmount; i++) refund_parsing_credit
RECURSIVE refund_loop(_, _, _)
refund_loop(C, t, n) ==
  IF n = 0 THEN C ELSE refund_loop(refund_parsing_credit(C, t), t, n - 1)

\* the three branches of the orphan finalization
SweepOrphanFinalize(s) ==
  /\ sweep[s].pc = "orphan"
  /\ sweep[s].orphan
  /\ orphan_finalizable(sweep[s].orphanPages, jobs)
  /\ LET totalJobs == Cardinality(DOMAIN jobs)
         succeededJobs == succeeded_count(jobs)
         totalItems == succeeded_items(jobs)
         refundAmount == orphan_required(sweep[s].orphanPages, jobs)
     IN IF succeededJobs = totalJobs
          THEN /\ doc' = [doc EXCEPT !.status = "completed",
                                     !.items_extracted = totalItems, !.stale = FALSE]
               /\ UNCHANGED <<export, reproc, lineItems, credits, hist>>
        ELSE IF succeededJobs > 0
          THEN /\ doc' = [doc EXCEPT !.status = "partial_failure",
                                     !.items_extracted = totalItems, !.stale = FALSE]
               /\ UNCHANGED <<export, reproc, lineItems, credits, hist>>
          ELSE /\ doc' = [doc EXCEPT !.status = "failed",
                                     !.items_extracted = 0, !.stale = FALSE]
               /\ credits' = refund_loop(credits, DocPractice, refundAmount)
               /\ hist' = [hist EXCEPT !.refundedSweep = @ + refundAmount]
  /\ SetSweep(s, [sweep[s] EXCEPT !.pc = "done", !.orphan = FALSE, !.orphanPages = 0])
  /\ UNCHANGED <<export, reproc, lineItems, rowLock, calls, credits0, refundCount, pdfPages, jobs, objects, orch,
                 inflight, workers>>

\* no candidate, no page jobs yet, or not all jobs terminal: continue
SweepOrphanSkip(s) ==
  /\ sweep[s].pc = "orphan"
  /\ ~(sweep[s].orphan /\ orphan_finalizable(sweep[s].orphanPages, jobs))
  /\ SetSweep(s, [sweep[s] EXCEPT !.pc = "done", !.orphan = FALSE, !.orphanPages = 0])
  /\ UNCHANGED <<export, reproc, lineItems, ledgerVars, pdfPages, doc, jobs, objects, orch, inflight, hist, workers>>

SweepStep(s) ==
  \/ SweepStart(s)
  \/ SweepStuckFire(s)
  \/ SweepRetryQuery(s)
  \/ SweepRetryReset(s)
  \/ SweepRetryFire(s)
  \/ SweepOrphanQuery(s)
  \/ SweepOrphanFinalize(s)
  \/ SweepOrphanSkip(s)

\* more than the Sweeper's windows (5 and 2 minutes) elapse
TimePasses ==
  /\ doc' = [doc EXCEPT !.stale = TRUE]
  /\ jobs' = [p \in DOMAIN jobs |->
                [jobs[p] EXCEPT !.createdStale = TRUE, !.updatedStale = TRUE]]
  /\ doc' # doc \/ jobs' # jobs
  /\ UNCHANGED <<export, reproc, lineItems, ledgerVars, pdfPages, objects, orch, inflight, sweep, hist, workers>>

(***************************************************************************)
(* The pipeline: one document of practice p1, its PDF of pdfPages pages.   *)
(***************************************************************************)
PageCounts == (0..MaxPages) \cup {MAX_PAGES_PER_DOC + 1}

Init ==
  /\ \E S \in {Tenants, {"p2"}} :
       credits \in {C \in [S -> 0..MaxBalance] : C["p2"] = MaxBalance}
  /\ credits0 = credits
  /\ rowLock = [t \in Tenants |-> 0]
  /\ calls = [c \in CallIds |-> [pc |-> "done", practice |-> "p2", amount |-> 1,
                                 v_balance |-> 0, result |-> "none"]]
  /\ refundCount = [t \in Tenants |-> 0]
  /\ pdfPages \in PageCounts
  /\ doc = InitDoc
  /\ jobs = << >>
  /\ objects = {}
  /\ orch = [o \in OrchIds |-> InitOrch]
  /\ inflight = [p \in Pages |-> 0]
  /\ sweep = [s \in SweepIds |-> InitSweep]
  /\ hist = InitHist
  /\ workers = [w \in WorkerIds |-> InitWorker]
  /\ lineItems = NoLineItems
  /\ reproc = InitReproc
  /\ export = InitExport

Next ==
  \/ \E o \in OrchIds : OrchStep(o)
  \/ \E p \in Pages : WorkerSucceed(p)
  \/ \E p \in Pages : WorkerFail(p)
  \/ \E s \in SweepIds : SweepStep(s)
  \/ TimePasses

Spec == Init /\ [][Next]_vars

(***************************************************************************)
(* SpecWorker: eob-worker invocations followed call by call, against the   *)
(* Job Store of a document whose page jobs the Orchestrator has created.   *)
(***************************************************************************)
Responses == {"ok", "429", "503", "other"}

SetWorker(w, r) == workers' = [workers EXCEPT ![w] = r]

\* a dispatch (by eob-enqueue, or by the Sweeper once the job is queued
\* again) starts an invocation for a queued job; nothing stops a second
\* dispatch of the same job
WorkerInvoke(w) ==
  /\ workers[w].pc = "idle"
  /\ IF w = 1 THEN TRUE ELSE workers[w - 1].pc # "idle"
  /\ \E p \in DOMAIN jobs :
       /\ jobs[p].status = "queued"
       /\ SetWorker(w, [workers[w] EXCEPT !.pc = "gemini", !.page = p,
                                          !.attempt = 0, !.calls = 0])
  /\ UNCHANGED <<export, reproc, lineItems, ledgerVars, pdfPages, doc, jobs, objects, orch, inflight, sweep, hist>>

is_retryable_AnyError(status) == status # "ok"

\* isRetryable = status 429 or 503
is_retryable(status) == status \in {"429", "503"}

\* !isRetryable || attempt === GEMINI_MAX_RETRIES: throw
gemini_gives_up(status, attempt) == ~is_retryable(status) \/ attempt = GEMINI_MAX_RETRIES

\* one iteration of for (attempt = 0; attempt <= GEMINI_MAX_RETRIES; attempt++)
\* on the invocation's record r: the call, aiResp.json() (json: the body
\* is JSON; if not, json() throws whatever the status), then break, throw,
\* or back off and go round again
gemini_step(r, status, json) ==
  [r EXCEPT
     !.calls = @ + 1,
     !.pc = IF ~json THEN "catch"
            ELSE IF status = "ok" THEN "persist"
            ELSE IF gemini_gives_up(status, r.attempt) THEN "catch"
            ELSE "gemini",
     !.attempt = IF json /\ status # "ok" /\ ~gemini_gives_up(status, r.attempt)
                   THEN @ + 1 ELSE @]

WorkerGeminiCall(w) ==
  /\ workers[w].pc = "gemini"
  /\ \E status \in Responses, json \in BOOLEAN :
       SetWorker(w, gemini_step(workers[w], status, json))
  /\ UNCHANGED <<export, reproc, lineItems, ledgerVars, pdfPages, doc, jobs, objects, orch, inflight, sweep, hist>>

\* a step other than the extraction call throws: the doc lookup, the page
\* download or the GCP token before it, JSON.parse or the BigQuery insert after
WorkerThrow(w) ==
  /\ workers[w].pc \in {"gemini", "persist"}
  /\ workers[w].pc = "gemini" => workers[w].calls = 0
  /\ SetWorker(w, [workers[w] EXCEPT !.pc = "catch"])
  /\ UNCHANGED <<export, reproc, lineItems, ledgerVars, pdfPages, doc, jobs, objects, orch, inflight, sweep, hist>>

\* the blank-page branch or STEP 5: succeed_eob_page_job
WorkerFinalize(w) ==
  /\ workers[w].pc = "persist"
  /\ \E n \in 0..MaxItems : WorkerSucceeds(workers[w].page, n)
  /\ SetWorker(w, [workers[w] EXCEPT !.pc = "succeeded"])
  /\ UNCHANGED <<export, reproc, lineItems, ledgerVars, pdfPages, objects, orch, inflight, sweep>>

\* catch (err): fail_eob_page_job
WorkerCatch(w) ==
  /\ workers[w].pc = "catch"
  /\ WorkerFails(workers[w].page, workers[w].calls)
  /\ SetWorker(w, [workers[w] EXCEPT !.pc = "failed"])
  /\ UNCHANGED <<export, reproc, lineItems, ledgerVars, pdfPages, objects, orch, inflight, sweep>>

\* catch (rpcErr): the fail_eob_page_job call itself errors and is only logged
WorkerCatchRpcErr(w) ==
  /\ workers[w].pc = "catch"
  /\ SetWorker(w, [workers[w] EXCEPT !.pc = "lost"])
  /\ UNCHANGED <<export, reproc, lineItems, ledgerVars, pdfPages, doc, jobs, objects, orch, inflight, sweep, hist>>

\* the Sweeper's retryable repair puts an idle retryable job back to queued
WorkerRequeue(p) ==
  /\ p \in retryable_idle(jobs)
  /\ jobs' = [jobs EXCEPT ![p].status = "queued", ![p].updatedStale = FALSE]
  /\ UNCHANGED <<export, reproc, lineItems, ledgerVars, pdfPages, doc, objects, orch, inflight, sweep, hist, workers>>

\* the state eob-enqueue leaves: every page has a queued job
InitWorkerSpec ==
  /\ credits = [t \in Tenants |-> 0]
  /\ credits0 = credits
  /\ rowLock = [t \in Tenants |-> 0]
  /\ calls = [c \in CallIds |-> [pc |-> "done", practice |-> "p2", amount |-> 1,
                                 v_balance |-> 0, result |-> "none"]]
  /\ refundCount = [t \in Tenants |-> 0]
  /\ pdfPages \in 1..MaxPages
  /\ doc = [status |-> "processing", total_pages |-> pdfPages, items_extracted |-> 0,
            stale |-> FALSE]
  /\ jobs = enqueue_all(pdfPages)
  /\ objects = 1..pdfPages
  /\ orch = [o \in OrchIds |-> InitOrch]
  /\ inflight = [p \in Pages |-> 0]
  /\ sweep = [s \in SweepIds |-> InitSweep]
  /\ hist = [InitHist EXCEPT !.charged = pdfPages]
  /\ workers = [w \in WorkerIds |-> InitWorker]
  /\ lineItems = NoLineItems
  /\ reproc = InitReproc
  /\ export = InitExport

NextWorker ==
  \/ \E w \in WorkerIds : WorkerInvoke(w)
  \/ \E w \in WorkerIds : WorkerGeminiCall(w)
  \/ \E w \in WorkerIds : WorkerThrow(w)
  \/ \E w \in WorkerIds : WorkerFinalize(w)
  \/ \E w \in WorkerIds : WorkerCatch(w)
  \/ \E w \in WorkerIds : WorkerCatchRpcErr(w)
  \/ \E p \in Pages : WorkerRequeue(p)
  \/ TimePasses

SpecWorker == InitWorkerSpec /\ [][NextWorker]_vars

(***************************************************************************)
(* SpecRetry: the invocations of SpecWorker for a one-page document, each  *)
(* remembering the status of its last extraction response (last).          *)
(***************************************************************************)
RetryGeminiCall(w) ==
  /\ workers[w].pc = "gemini"
  /\ \E status \in Responses, json \in BOOLEAN :
       SetWorker(w, [gemini_step(workers[w], status, json) EXCEPT !.last = status])
  /\ UNCHANGED <<export, reproc, lineItems, ledgerVars, pdfPages, doc, jobs, objects, orch, inflight, sweep, hist>>

InitRetry ==
  /\ credits = [t \in Tenants |-> 0]
  /\ credits0 = credits
  /\ rowLock = [t \in Tenants |-> 0]
  /\ calls = [c \in CallIds |-> [pc |-> "done", practice |-> "p2", amount |-> 1,
                                 v_balance |-> 0, result |-> "none"]]
  /\ refundCount = [t \in Tenants |-> 0]
  /\ pdfPages = 1
  /\ doc = [status |-> "processing", total_pages |-> 1, items_extracted |-> 0,
            stale |-> FALSE]
  /\ jobs = enqueue_all(1)
  /\ objects = {1}
  /\ orch = [o \in OrchIds |-> InitOrch]
  /\ inflight = [p \in Pages |-> 0]
  /\ sweep = [s \in SweepIds |-> InitSweep]
  /\ hist = [InitHist EXCEPT !.charged = 1]
  /\ workers = [w \in WorkerIds |->
                  [pc |-> "idle", page |-> 0, attempt |-> 0, calls |-> 0,
                   last |-> "none"]]
  /\ lineItems = NoLineItems
  /\ reproc = InitReproc
  /\ export = InitExport

NextRetry ==
  \/ \E w \in WorkerIds : WorkerInvoke(w)
  \/ \E w \in WorkerIds : RetryGeminiCall(w)
  \/ \E w \in WorkerIds : WorkerThrow(w)
  \/ \E w \in WorkerIds : WorkerFinalize(w)
  \/ \E w \in WorkerIds : WorkerCatch(w)
  \/ \E w \in WorkerIds : WorkerCatchRpcErr(w)
  \/ \E p \in Pages : WorkerRequeue(p)
  \/ TimePasses

SpecRetry == InitRetry /\ [][NextRetry]_vars

(***************************************************************************)
(* SpecStore: eob-worker invocations followed through STEP 3B to STEP 5,   *)
(* against the line-item table.  An item is known by its composite key     *)
(* ("nokey": an item without a meaningful key); a stored row by the index  *)
(* in its insertId and that key.                                           *)
(***************************************************************************)
StoreRunIds == 1..MaxStoreRuns

\* parsed.items || parsed.line_items || []
RawResponses == UNION {[1..n -> ItemKeys] : n \in 0..MaxRaw}

InitStoreRun == [pc |-> "idle", page |-> 0, raw |-> << >>, extracted |-> << >>,
                 after |-> {}, prev |-> NoRows, delOk |-> TRUE, inserted |-> -1]

\* the loop of deduplicateItems: one group per composite key, in insertion
\* order; an item without a key is kept as it is
RECURSIVE dedup_groups(_, _)
dedup_groups(items, groups) ==
  IF items = << >> THEN groups
  ELSE LET item == Head(items) IN
       dedup_groups(Tail(items),
                    IF item = "nokey" \/ \A i \in 1..Len(groups) : groups[i] # item
                      THEN Append(groups, item)
                      ELSE groups)

\* deduplicateItems(items)
deduplicateItems(items) ==
  IF Len(items) <= 1 THEN items ELSE dedup_groups(items, << >>)

\* rows = extracted.map((it, idx) => ({ insertId: ..._${idx}, json: ... }))
RowsOf(extracted) ==
  [r \in RowIds |-> IF r.idx <= Len(extracted) /\ extracted[r.idx] = r.key THEN 1 ELSE 0]

StoreRunOver(pc) == pc \in {"succeeded", "failed"}

StoreInvoke(w) ==
  /\ workers[w].pc = "idle"
  /\ IF w = 1 THEN TRUE ELSE workers[w - 1].pc # "idle"
  /\ \E p \in DOMAIN jobs :
       SetWorker(w, [workers[w] EXCEPT
         !.pc = "gemini", !.page = p,
         !.after = {v \in StoreRunIds : StoreRunOver(workers[v].pc)},
         !.prev = lineItems[p]])
  /\ UNCHANGED <<export, reproc, ledgerVars, pdfPages, doc, jobs, objects, orch, inflight, sweep, hist,
                 lineItems>>

\* the doc lookup, the download, the GCP token, the extraction call or
\* JSON.parse throws
StoreThrow(w) ==
  /\ workers[w].pc = "gemini"
  /\ SetWorker(w, [workers[w] EXCEPT !.pc = "catch"])
  /\ UNCHANGED <<export, reproc, ledgerVars, pdfPages, doc, jobs, objects, orch, inflight, sweep, hist,
                 lineItems>>

\* no candidates: succeed_eob_page_job with 0 items, return
StoreNoCandidates(w) ==
  /\ workers[w].pc = "gemini"
  /\ WorkerSucceeds(workers[w].page, 0)
  /\ SetWorker(w, [workers[w] EXCEPT !.pc = "succeeded"])
  /\ UNCHANGED <<export, reproc, ledgerVars, pdfPages, objects, orch, inflight, sweep, lineItems>>

\* STEP 3B and the test of STEP 4: if (extracted.length > 0)
StoreParse(w) ==
  /\ workers[w].pc = "gemini"
  /\ \E raw \in RawResponses :
       LET extracted == deduplicateItems(raw) IN
       SetWorker(w, [workers[w] EXCEPT
         !.raw = raw, !.extracted = extracted,
         !.pc = IF Len(extracted) > 0 THEN "predelete" ELSE "finalize"])
  /\ UNCHANGED <<export, reproc, ledgerVars, pdfPages, doc, jobs, objects, orch, inflight, sweep, hist,
                 lineItems>>

\* 4a: DELETE ... WHERE eob_document_id = ... AND page_number = ...; the
\*     response is not checked and a thrown error is only logged
StorePreDelete(w) ==
  /\ workers[w].pc = "predelete"
  /\ \E ok \in BOOLEAN :
       /\ lineItems' = IF ok THEN [lineItems EXCEPT ![workers[w].page] = NoRows]
                       ELSE lineItems
       /\ SetWorker(w, [workers[w] EXCEPT !.pc = "insert", !.delOk = ok])
  /\ UNCHANGED <<export, reproc, ledgerVars, pdfPages, doc, jobs, objects, orch, inflight, sweep, hist>>

\* the table after insertAll took the first n rows; a row whose insertId is
\* already in the table may be dropped (best-effort de-duplication)
insert_rows(T, extracted, n, dedup) ==
  [r \in RowIds |->
     IF /\ r.idx <= n
        /\ extracted[r.idx] = r.key
        /\ ~(dedup /\ \E k \in ItemKeys : T[[idx |-> r.idx, key |-> k]] > 0)
       THEN T[r] + 1 ELSE T[r]]

StoreInsert_IgnoresRowErrors(w) ==
  /\ workers[w].pc = "insert"
  /\ \E n \in 0..Len(workers[w].extracted) : \E dedup \in BOOLEAN :
       /\ lineItems' = [lineItems EXCEPT ![workers[w].page] =
                          insert_rows(@, workers[w].extracted, n, dedup)]
       /\ SetWorker(w, [workers[w] EXCEPT !.inserted = n, !.pc = "finalize"])
  /\ UNCHANGED <<export, reproc, ledgerVars, pdfPages, doc, jobs, objects, orch, inflight, sweep, hist>>

\* 4b: insertAll acknowledges n of the rows; !bqResp.ok or insertErrors:
\*     throw
StoreInsert(w) ==
  /\ workers[w].pc = "insert"
  /\ \E n \in 0..Len(workers[w].extracted) : \E dedup \in BOOLEAN :
       /\ lineItems' = [lineItems EXCEPT ![workers[w].page] =
                          insert_rows(@, workers[w].extracted, n, dedup)]
       /\ SetWorker(w, [workers[w] EXCEPT
            !.inserted = n,
            !.pc = IF n = Len(workers[w].extracted) THEN "finalize" ELSE "catch"])
  /\ UNCHANGED <<export, reproc, ledgerVars, pdfPages, doc, jobs, objects, orch, inflight, sweep, hist>>

\* STEP 5: succeed_eob_page_job(p_items_extracted = extracted.length)
StoreFinalize(w) ==
  /\ workers[w].pc = "finalize"
  /\ WorkerSucceeds(workers[w].page, Len(workers[w].extracted))
  /\ SetWorker(w, [workers[w] EXCEPT !.pc = "succeeded"])
  /\ UNCHANGED <<export, reproc, ledgerVars, pdfPages, objects, orch, inflight, sweep, lineItems>>

\* catch (err): fail_eob_page_job
StoreCatch(w) ==
  /\ workers[w].pc = "catch"
  /\ WorkerFails(workers[w].page, 1)
  /\ SetWorker(w, [workers[w] EXCEPT !.pc = "failed"])
  /\ UNCHANGED <<export, reproc, ledgerVars, pdfPages, objects, orch, inflight, sweep, lineItems>>

InitStoreSpec ==
  /\ credits = [t \in Tenants |-> 0]
  /\ credits0 = credits
  /\ rowLock = [t \in Tenants |-> 0]
  /\ calls = [c \in CallIds |-> [pc |-> "done", practice |-> "p2", amount |-> 1,
                                 v_balance |-> 0, result |-> "none"]]
  /\ refundCount = [t \in Tenants |-> 0]
  /\ pdfPages \in 1..MaxPages
  /\ doc = [status |-> "processing", total_pages |-> pdfPages, items_extracted |-> 0,
            stale |-> FALSE]
  /\ jobs = enqueue_all(pdfPages)
  /\ objects = 1..pdfPages
  /\ orch = [o \in OrchIds |-> InitOrch]
  /\ inflight = [p \in Pages |-> 0]
  /\ sweep = [s \in SweepIds |-> InitSweep]
  /\ hist = [InitHist EXCEPT !.charged = pdfPages]
  /\ workers = [w \in StoreRunIds |-> InitStoreRun]
  /\ lineItems = NoLineItems
  /\ reproc = InitReproc
  /\ export = InitExport

NextStore ==
  \/ \E w \in StoreRunIds : StoreInvoke(w)
  \/ \E w \in StoreRunIds : StoreThrow(w)
  \/ \E w \in StoreRunIds : StoreNoCandidates(w)
  \/ \E w \in StoreRunIds : StoreParse(w)
  \/ \E w \in StoreRunIds : StorePreDelete(w)
  \/ \E w \in StoreRunIds : StoreInsert(w)
  \/ \E w \in StoreRunIds : StoreFinalize(w)
  \/ \E w \in StoreRunIds : StoreCatch(w)

SpecStore == InitStoreSpec /\ [][NextStore]_vars

(***************************************************************************)
(* SpecLive: the page jobs of one document after eob-enqueue returned, and *)
(* the Sweeper triggered again and again.  A dispatch of eob-enqueue was   *)
(* lost (inflight 0) or its Worker is running (inflight 1).  Fairness: a   *)
(* triggered pass runs to its end and the next pass is triggered; time     *)
(* passes; a running Worker returns; the result of a Worker fired for a    *)
(* stuck job is not lost on every pass.                                    *)
(***************************************************************************)
\* return json({ success: true, ...summary }); the next trigger finds the
\* handler at its entry
SweepReturn(s) ==
  /\ sweep[s].pc = "done"
  /\ SetSweep(s, InitSweep)
  /\ UNCHANGED <<export, reproc, lineItems, ledgerVars, pdfPages, doc, jobs, objects, orch, inflight, hist,
                 workers>>

InitLive ==
  /\ credits = [t \in Tenants |-> 0]
  /\ credits0 = credits
  /\ rowLock = [t \in Tenants |-> 0]
  /\ calls = [c \in CallIds |-> [pc |-> "done", practice |-> "p2", amount |-> 1,
                                 v_balance |-> 0, result |-> "none"]]
  /\ refundCount = [t \in Tenants |-> 0]
  /\ pdfPages \in 1..MaxPages
  /\ doc = [status |-> "processing", total_pages |-> pdfPages, items_extracted |-> 0,
            stale |-> FALSE]
  /\ jobs = enqueue_all(pdfPages)
  /\ objects = 1..pdfPages
  /\ orch = [o \in OrchIds |-> InitOrch]
  /\ inflight \in {f \in [Pages -> 0..1] : \A p \in Pages : p > pdfPages => f[p] = 0}
  /\ sweep = [s \in SweepIds |-> InitSweep]
  /\ hist = [InitHist EXCEPT !.charged = pdfPages]
  /\ workers = [w \in WorkerIds |-> InitWorker]
  /\ lineItems = NoLineItems
  /\ reproc = InitReproc
  /\ export = InitExport

NextLive ==
  \/ \E p \in Pages : WorkerSucceed(p)
  \/ \E p \in Pages : WorkerFail(p)
  \/ SweepStart(1)
  \/ SweepStuckFire(1)
  \/ SweepRetryQuery(1)
  \/ SweepRetryReset(1)
  \/ SweepRetryFire(1)
  \/ SweepOrphanQuery(1)
  \/ SweepOrphanFinalize(1)
  \/ SweepOrphanSkip(1)
  \/ SweepReturn(1)
  \/ TimePasses

FairLive ==
  /\ WF_vars(SweepStep(1) \/ SweepReturn(1))
  /\ WF_vars(TimePasses)
  /\ \A p \in Pages : WF_vars(WorkerSucceed(p) \/ WorkerFail(p))
  /\ \A p \in Pages :
       SF_vars(SweepStuckFire(1) /\ (IF p \in DOMAIN jobs THEN jobs'[p] # jobs[p] ELSE FALSE))

SpecLive == InitLive /\ [][NextLive]_vars /\ FairLive

(***************************************************************************)
(* SpecDocLive: a Document left queued or processing although its Page     *)
(* Jobs are terminal (eob-enqueue's final status write landed after the    *)
(* last rollup, or a re-run set the Document back to queued), a duplicate  *)
(* Worker possibly still running, and the Sweeper triggered again and      *)
(* again.  Steps and fairness are those of SpecLive.                       *)
(***************************************************************************)
\* the rows of terminal jobs: succeeded with its item count, or failed at
\* the attempt budget
TerminalJobRows(p_total_pages) ==
  {[status |-> "succeeded", attempt_count |-> 0, items_extracted |-> n,
    total_pages |-> p_total_pages, createdStale |-> FALSE, updatedStale |-> FALSE] :
     n \in 0..MaxItems}
  \cup
  {[status |-> "failed", attempt_count |-> max_attempts, items_extracted |-> 0,
    total_pages |-> p_total_pages, createdStale |-> FALSE, updatedStale |-> FALSE]}

InitDocLive ==
  /\ credits = [t \in Tenants |-> 0]
  /\ credits0 = credits
  /\ rowLock = [t \in Tenants |-> 0]
  /\ calls = [c \in CallIds |-> [pc |-> "done", practice |-> "p2", amount |-> 1,
                                 v_balance |-> 0, result |-> "none"]]
  /\ refundCount = [t \in Tenants |-> 0]
  /\ pdfPages \in 1..MaxPages
  /\ jobs \in [1..pdfPages -> TerminalJobRows(pdfPages)]
  /\ \E st \in {"queued", "processing"} :
       doc = [status |-> st, total_pages |-> pdfPages,
              items_extracted |-> succeeded_items(jobs), stale |-> FALSE]
  /\ objects = 1..pdfPages
  /\ orch = [o \in OrchIds |-> InitOrch]
  /\ inflight \in {f \in [Pages -> 0..1] : \A p \in Pages : p > pdfPages => f[p] = 0}
  /\ sweep = [s \in SweepIds |-> InitSweep]
  /\ hist = [InitHist EXCEPT !.charged = pdfPages,
                             !.failedRuns = [p \in Pages |->
                                IF p \in DOMAIN jobs THEN jobs[p].attempt_count ELSE 0]]
  /\ workers = [w \in WorkerIds |-> InitWorker]
  /\ lineItems = NoLineItems
  /\ reproc = InitReproc
  /\ export = InitExport

SpecDocLive == InitDocLive /\ [][NextLive]_vars /\ FairLive

(***************************************************************************)
(* SpecReprocess: reprocess-document on a Document whose extraction has    *)
(* ended, the eob-enqueue invocation it triggers, and the Workers that     *)
(* invocation dispatches.                                                  *)
(***************************************************************************)
\* 1. the Document is read; 409 while it is pending, queued or processing
reprocess_blocked(status) == status \in {"pending", "queued", "processing"}

ReprocessStart ==
  /\ reproc.pc = "idle"
  /\ reproc.runs < MaxReprocess
  /\ reproc' = [reproc EXCEPT !.runs = @ + 1,
                              !.pc = IF reprocess_blocked(doc.status) THEN "idle" ELSE "bq"]
  /\ UNCHANGED <<export, ledgerVars, pdfPages, doc, jobs, objects, orch, inflight, sweep, hist,
                 workers, lineItems>>

\* 2. DELETE FROM eob_line_items WHERE eob_document_id = ...: the rows are
\*    deleted, or the request is refused (the response status is not read),
\*    or the call throws: 500
ReprocessDeleteRows ==
  /\ reproc.pc = "bq"
  /\ \E outcome \in {"deleted", "refused", "thrown"} :
       /\ lineItems' = IF outcome = "deleted" THEN NoLineItems ELSE lineItems
       /\ reproc' = [reproc EXCEPT !.pc = IF outcome = "thrown" THEN "idle" ELSE "jobs"]
  /\ UNCHANGED <<export, ledgerVars, pdfPages, doc, jobs, objects, orch, inflight, sweep, hist,
                 workers>>

\* 3. delete from eob_page_jobs where eob_document_id = ...; jobsErr is
\*    non-fatal.  A Worker still running holds the id of a deleted row: its
\*    RPC finds no row and changes nothing
ReprocessDeleteJobs ==
  /\ reproc.pc = "jobs"
  /\ \E jobsErr \in BOOLEAN :
       /\ jobs' = IF jobsErr THEN jobs ELSE << >>
       /\ inflight' = IF jobsErr THEN inflight ELSE [p \in Pages |-> 0]
       /\ reproc' = [reproc EXCEPT
            !.pc = "reset",
            !.attempts = IF jobsErr THEN @
                         ELSE [p \in Pages |->
                                 IF p \in DOMAIN jobs /\ jobs[p].attempt_count > @[p]
                                   THEN jobs[p].attempt_count ELSE @[p]]]
  /\ UNCHANGED <<export, ledgerVars, pdfPages, doc, objects, orch, sweep, hist,
                 workers, lineItems>>

\* 4. update eob_documents: status pending, items_extracted 0, the export
\*    stamp cleared; resetErr: 500
ReprocessResetDoc ==
  /\ reproc.pc = "reset"
  /\ \E resetErr \in BOOLEAN :
       IF resetErr
         THEN /\ reproc' = [reproc EXCEPT !.pc = "idle"]
              /\ UNCHANGED <<doc, export>>
         ELSE /\ doc' = [doc EXCEPT !.status = "pending", !.items_extracted = 0,
                                    !.stale = FALSE]
              /\ export' = [export EXCEPT !.locked = @ \ {1}]
              /\ reproc' = [reproc EXCEPT
                   !.pc = "enqueue",
                   !.run = 1 + Cardinality({o \in OrchIds : orch[o].pc # "start"})]
  /\ UNCHANGED <<ledgerVars, pdfPages, jobs, objects, orch, inflight, sweep, hist, workers,
                 lineItems>>

\* the eob-enqueue invocation reprocess-document triggers and awaits
ReprocessRun == reproc.run

\* 5. fetch eob-enqueue: the invocation begins
ReprocessEnqueue ==
  /\ reproc.pc = "enqueue"
  /\ ReprocessRun \in OrchIds
  /\ orch[ReprocessRun].pc = "start"
  /\ \/ OrchRejectSource(ReprocessRun)
     \/ OrchCharge(ReprocessRun)

\*    ... and its response arrives
ReprocessReturn ==
  /\ reproc.pc = "enqueue"
  /\ ReprocessRun \in OrchIds
  /\ orch[ReprocessRun].pc \in {"rejected", "error", "done"}
  /\ reproc' = [reproc EXCEPT !.pc = "idle", !.run = 0]
  /\ UNCHANGED <<export, ledgerVars, pdfPages, doc, jobs, objects, orch, inflight, sweep, hist,
                 workers, lineItems>>

\* the steps of the triggered eob-enqueue invocation after its first one
ReprocessOrchStep ==
  \E o \in OrchIds :
    \/ OrchDocUpdate(o)
    \/ OrchDocUpdateFail(o)
    \/ OrchPageSkip(o)
    \/ OrchPageEnqueue(o)
    \/ OrchPageUploadFail(o)
    \/ OrchPageEnqueueFail(o)
    \/ OrchDispatch(o)
    \/ OrchFinalRead(o)
    \/ OrchFinalWrite(o)

InitReprocess ==
  /\ credits \in {C \in [Tenants -> 0..MaxBalance] : C["p2"] = MaxBalance}
  /\ credits0 = credits
  /\ rowLock = [t \in Tenants |-> 0]
  /\ calls = [c \in CallIds |-> [pc |-> "done", practice |-> "p2", amount |-> 1,
                                 v_balance |-> 0, result |-> "none"]]
  /\ refundCount = [t \in Tenants |-> 0]
  /\ pdfPages \in 1..MaxPages
  /\ jobs \in [1..pdfPages -> TerminalJobRows(pdfPages)]
  /\ doc = [status |-> succeed_rollup_or_failed(jobs, pdfPages), total_pages |-> pdfPages,
            items_extracted |-> succeeded_items(jobs), stale |-> FALSE]
  /\ objects = 1..pdfPages
  /\ orch = [o \in OrchIds |-> InitOrch]
  /\ inflight = [p \in Pages |-> 0]
  /\ sweep = [s \in SweepIds |-> InitSweep]
  /\ hist = [InitHist EXCEPT !.charged = pdfPages,
                             !.failedRuns = [p \in Pages |->
                                IF p \in DOMAIN jobs THEN jobs[p].attempt_count ELSE 0]]
  /\ workers = [w \in WorkerIds |-> InitWorker]
  /\ lineItems = [p \in Pages |->
                    IF p \in DOMAIN jobs /\ jobs[p].items_extracted = 1
                      THEN RowsOf(<<"a">>) ELSE NoRows]
  /\ reproc = InitReproc
  /\ export = InitExport

NextReprocess ==
  \/ ReprocessStart
  \/ ReprocessDeleteRows
  \/ ReprocessDeleteJobs
  \/ ReprocessResetDoc
  \/ ReprocessEnqueue
  \/ ReprocessOrchStep
  \/ ReprocessReturn
  \/ \E p \in Pages : WorkerSucceed(p)
  \/ \E p \in Pages : WorkerFail(p)

SpecReprocess == InitReprocess /\ [][NextReprocess]_vars

(***************************************************************************)
(* generate-835: the remittance encoder (buildTransactionBody) and the     *)
(* generation handler.  Amounts are integer cents; a stored amount may be  *)
(* null.  A segment is a record: its tag, the claim it names (CLP), and    *)
(* two numbers (SVC and CLP: billed and paid; ST: the control number; SE:  *)
(* the declared count and the control number; GE: the declared count).     *)
(* A CAS segment carries its group and reason code as id and its amount.   *)
(* The rows carry a service date, no remark code and no allowed_amount; no *)
(* value holds the segment terminator.                                     *)
(***************************************************************************)
NullAmount == -1

Seg(tag, id, a, b) == [tag |-> tag, id |-> id, a |-> a, b |-> b]

\* parseFloat(x) || 0
parseAmount(x) == IF x = NullAmount THEN 0 ELSE x

\* row.claim_number || `${row.patient_name}_${row.member_id}`
claim_key(row) == IF row.claim_number # "" THEN row.claim_number ELSE row.patient_name

\* the keys of claimMap in insertion order
RECURSIVE claimMap_keys(_)
claimMap_keys(bqRows) ==
  IF bqRows = << >> THEN << >>
  ELSE LET before == claimMap_keys(SubSeq(bqRows, 1, Len(bqRows) - 1))
           key == claim_key(bqRows[Len(bqRows)])
       IN  IF \E j \in 1..Len(before) : before[j] = key THEN before
           ELSE Append(before, key)

\* claimMap.get(key): the rows pushed under the key, in input order
claimMap_get(bqRows, key) == SelectSeq(bqRows, LAMBDA row : claim_key(row) = key)

\* lines.reduce((s, l) => s + (parseFloat(l[field]) || 0), 0)
RECURSIVE reduce_amount(_, _)
reduce_amount(lines, field) ==
  IF lines = << >> THEN 0
  ELSE reduce_amount(Tail(lines), field) + parseAmount(Head(lines)[field])

totalBilled_FirstLine(lines) == parseAmount(lines[1].billed_amount)

totalBilled(lines) == reduce_amount(lines, "billed_amount")

totalPaid(lines) == reduce_amount(lines, "paid_amount")

cas_segments_NoRemainder(line, billedAmt, paidAmt) ==
  LET contractualAdj == parseAmount(line.contractual_adjustment)
      deductible == parseAmount(line.deductible_amount)
      coinsurance == parseAmount(line.coinsurance_amount)
      copay == parseAmount(line.copay_amount)
      hasGranular == contractualAdj > 0 \/ deductible > 0 \/ coinsurance > 0 \/ copay > 0
      totalAdj == IF parseAmount(line.adjustment_amount) # 0
                    THEN line.adjustment_amount ELSE billedAmt - paidAmt
  IN  IF hasGranular
        THEN (IF contractualAdj > 0 THEN <<Seg("CAS", "CO*45", contractualAdj, 0)>> ELSE << >>)
             \o (IF deductible > 0 THEN <<Seg("CAS", "PR*1", deductible, 0)>> ELSE << >>)
             \o (IF coinsurance > 0 THEN <<Seg("CAS", "PR*2", coinsurance, 0)>> ELSE << >>)
             \o (IF copay > 0 THEN <<Seg("CAS", "PR*3", copay, 0)>> ELSE << >>)
        ELSE IF totalAdj > 0 THEN <<Seg("CAS", "CO*45", totalAdj, 0)>> ELSE << >>

\* the CAS segments of one service line; x > 0.005 is x > 0 in cents
cas_segments(line, billedAmt, paidAmt) ==
  LET contractualAdj == parseAmount(line.contractual_adjustment)
      deductible == parseAmount(line.deductible_amount)
      coinsurance == parseAmount(line.coinsurance_amount)
      copay == parseAmount(line.copay_amount)
      hasGranular == contractualAdj > 0 \/ deductible > 0 \/ coinsurance > 0 \/ copay > 0
      granularSum == contractualAdj + deductible + coinsurance + copay
      \* parseFloat(line.adjustment_amount) || (billedAmt - paidAmt)
      totalAdj == IF parseAmount(line.adjustment_amount) # 0
                    THEN line.adjustment_amount ELSE billedAmt - paidAmt
      remainder == totalAdj - granularSum
  IN  IF hasGranular
        THEN (IF contractualAdj > 0 THEN <<Seg("CAS", "CO*45", contractualAdj, 0)>> ELSE << >>)
             \o (IF deductible > 0 THEN <<Seg("CAS", "PR*1", deductible, 0)>> ELSE << >>)
             \o (IF coinsurance > 0 THEN <<Seg("CAS", "PR*2", coinsurance, 0)>> ELSE << >>)
             \o (IF copay > 0 THEN <<Seg("CAS", "PR*3", copay, 0)>> ELSE << >>)
             \o (IF remainder > 0 THEN <<Seg("CAS", "OA*23", remainder, 0)>> ELSE << >>)
        ELSE IF totalAdj > 0 THEN <<Seg("CAS", "CO*45", totalAdj, 0)>> ELSE << >>

\* one service line: SVC always, DTM*472, then its CAS segments
line_segments(line) ==
  LET billedAmt == parseAmount(line.billed_amount)
      paidAmt == parseAmount(line.paid_amount)
  IN  <<Seg("SVC", "", billedAmt, paidAmt), Seg("DTM", "", 472, 0)>>
      \o cas_segments(line, billedAmt, paidAmt)

RECURSIVE lines_segments(_)
lines_segments(lines) ==
  IF lines = << >> THEN << >>
  ELSE line_segments(Head(lines)) \o lines_segments(Tail(lines))

\* one CLP loop: CLP with the aggregated amounts, NM1, then the SVC loops
claim_segments(claimKey, lines) ==
  <<Seg("CLP", claimKey, totalBilled(lines), totalPaid(lines)),
    Seg("NM1", "", 0, 0)>> \o lines_segments(lines)

RECURSIVE claims_segments(_, _)
claims_segments(bqRows, keys) ==
  IF keys = << >> THEN << >>
  ELSE claim_segments(Head(keys), claimMap_get(bqRows, Head(keys)))
       \o claims_segments(bqRows, Tail(keys))

\* BPR, TRN, DTM*405, N1*PR, N1*PE, N3 and N4 when the practice has the
\* address parts, REF; then the CLP loops
buildTransactionBody(practice, bqRows) ==
  <<Seg("BPR", "", 0, 0), Seg("TRN", "", 0, 0), Seg("DTM", "", 405, 0),
    Seg("N1", "PR", 0, 0), Seg("N1", "PE", 0, 0)>>
  \o (IF practice.address_line1 THEN <<Seg("N3", "", 0, 0)>> ELSE << >>)
  \o (IF practice.city_state_zip THEN <<Seg("N4", "", 0, 0)>> ELSE << >>)
  \o <<Seg("REF", "TJ", 0, 0)>>
  \o claims_segments(bqRows, claimMap_keys(bqRows))

seCount_NoTrailer(bodySegments) == Len(bodySegments) + 1

\* bodySegments.length + 2
seCount(bodySegments) == Len(bodySegments) + 2

(***************************************************************************)
(* The encoder on its own (SpecEncoder): buildTransactionBody applied to   *)
(* every list of up to MaxRows rows.                                       *)
(***************************************************************************)
ClaimNumbers == {"C1", ""}

BilledAmounts == {NullAmount, 1, 2}

PaidAmounts == {0, 1}

\* a row of older data: no adjustment_amount and no granular fields
LegacyRow(claim_number, billed_amount, paid_amount) ==
  [claim_number |-> claim_number, patient_name |-> "JANE DOE",
   billed_amount |-> billed_amount, paid_amount |-> paid_amount,
   adjustment_amount |-> NullAmount, contractual_adjustment |-> NullAmount,
   deductible_amount |-> NullAmount, coinsurance_amount |-> NullAmount,
   copay_amount |-> NullAmount]

BqRows == {LegacyRow(c, b, p) : c \in ClaimNumbers, b \in BilledAmounts, p \in PaidAmounts}

RowLists == UNION {[1..n -> BqRows] : n \in 0..MaxRows}

Practices == [address_line1 : BOOLEAN, city_state_zip : BOOLEAN]

EncodeBody ==
  /\ export.pc = "idle"
  /\ export' = [export EXCEPT
       !.pc = "built",
       !.allTransactionSegments = buildTransactionBody(export.practice, export.docs[1])]
  /\ UNCHANGED <<reproc, lineItems, ledgerVars, pdfPages, doc, jobs, objects,
                 orch, inflight, sweep, hist, workers>>

\* the pipeline at rest while a file is generated: nothing of it is read by
\* the encoder, whose rows come from the request's Documents
PipelineAtRest ==
  /\ credits = [t \in Tenants |-> 0]
  /\ credits0 = credits
  /\ rowLock = [t \in Tenants |-> 0]
  /\ calls = [c \in CallIds |-> [pc |-> "done", practice |-> "p2", amount |-> 1,
                                 v_balance |-> 0, result |-> "none"]]
  /\ refundCount = [t \in Tenants |-> 0]
  /\ pdfPages = 1
  /\ doc = [status |-> "succeeded", total_pages |-> 1, items_extracted |-> 1,
            stale |-> FALSE]
  /\ jobs = << >>
  /\ objects = {1}
  /\ orch = [o \in OrchIds |-> InitOrch]
  /\ inflight = [p \in Pages |-> 0]
  /\ sweep = [s \in SweepIds |-> InitSweep]
  /\ hist = InitHist
  /\ workers = [w \in WorkerIds |-> InitWorker]
  /\ lineItems = NoLineItems
  /\ reproc = InitReproc

InitEncoder ==
  /\ PipelineAtRest
  /\ \E practice \in Practices, bqRows \in RowLists :
       export = [InitExport EXCEPT !.practice = practice, !.docs = <<bqRows>>]

NextEncoder == EncodeBody

SpecEncoder == InitEncoder /\ [][NextEncoder]_vars

(***************************************************************************)
(* The generation handler (SpecExport): up to MaxExports invocations, each *)
(* for the same request of up to MaxDocs Documents.  export.docs[d] holds  *)
(* the payment items stored for the d-th requested Document.               *)
(***************************************************************************)
Profiles == {"missing", "no_tax_id", "no_npi", "complete"}

\* the rows of a requested Document: none, one line, or two lines in two claims
DocRows ==
  {<< >>,
   <<LegacyRow("C1", 2, 1)>>,
   <<LegacyRow("C1", 2, 1), LegacyRow("", 1, 1)>>}

practice_rejected_TaxIdOnly(profile) == profile \in {"missing", "no_tax_id"}

\* practiceErr || !practice (404); !practice.tax_id || !practice.npi (422)
practice_rejected(profile) == profile \in {"missing", "no_tax_id", "no_npi"}

\* request parsing, Document ids, practice profile: an incomplete profile
\* answers with an error before anything is queried
ExportStart ==
  /\ export.pc \in {"idle", "done", "error"}
  /\ export.runs < MaxExports
  /\ export' = [export EXCEPT
       !.pc = IF practice_rejected(export.profile) THEN "error" ELSE "query",
       !.runs = @ + 1,
       !.i = 0, !.transactionCount = 0, !.allTransactionSegments = << >>,
       !.encoded = << >>, !.file = << >>]
  /\ UNCHANGED <<reproc, lineItems, ledgerVars, pdfPages, doc, jobs, objects,
                 orch, inflight, sweep, hist, workers>>

\* GCP token and the two BigQuery queries; a failure of either is caught
\* and answered with 500
ExportQuery ==
  /\ export.pc = "query"
  /\ \E ok \in BOOLEAN :
       export' = [export EXCEPT !.pc = IF ok THEN "docs" ELSE "error", !.i = 1]
  /\ UNCHANGED <<reproc, lineItems, ledgerVars, pdfPages, doc, jobs, objects,
                 orch, inflight, sweep, hist, workers>>

\* one turn of the per-Document loop: a Document without rows ends a single
\* request with 404 and is skipped in a batch; otherwise the body is built
\* and wrapped in ST and SE
ExportDoc ==
  /\ export.pc = "docs"
  /\ export.i <= Len(export.docs)
  /\ LET bqRows == export.docs[export.i]
         bodySegments == buildTransactionBody(export.practice, bqRows)
         stNumber == export.transactionCount + 1
     IN  export' =
           IF bqRows = << >>
             THEN IF ~export.isBatch THEN [export EXCEPT !.pc = "error"]
                  ELSE [export EXCEPT !.i = @ + 1]
             ELSE [export EXCEPT
                     !.i = @ + 1,
                     !.transactionCount = stNumber,
                     !.encoded = Append(@, export.i),
                     !.allTransactionSegments =
                        @ \o <<Seg("ST", "835", stNumber, 0)>> \o bodySegments
                          \o <<Seg("SE", "", seCount(bodySegments), stNumber)>>]
  /\ UNCHANGED <<reproc, lineItems, ledgerVars, pdfPages, doc, jobs, objects,
                 orch, inflight, sweep, hist, workers>>

\* after the loop: no transaction set answers 404; otherwise ISA, GS, the
\* transaction sets, GE with the number of transaction sets, IEA
ExportEnvelope ==
  /\ export.pc = "docs"
  /\ export.i > Len(export.docs)
  /\ export' =
       IF export.transactionCount = 0 THEN [export EXCEPT !.pc = "error"]
       ELSE [export EXCEPT
               !.pc = "stamp",
               !.file = <<Seg("ISA", "", 0, 0), Seg("GS", "HP", 0, 0)>>
                        \o export.allTransactionSegments
                        \o <<Seg("GE", "", export.transactionCount, 0),
                             Seg("IEA", "", 1, 0)>>]
  /\ UNCHANGED <<reproc, lineItems, ledgerVars, pdfPages, doc, jobs, objects,
                 orch, inflight, sweep, hist, workers>>

\* the export stamp on every Document that was encoded (an update that
\* fails is logged and skipped), then the file is returned with 200
ExportStamp ==
  /\ export.pc = "stamp"
  /\ \E stamped \in SUBSET {export.encoded[n] : n \in 1..Len(export.encoded)} :
       export' = [export EXCEPT
                    !.pc = "done",
                    !.locked = @ \cup stamped,
                    !.stamps = @ + Cardinality(stamped),
                    !.files = @ + 1]
  /\ UNCHANGED <<reproc, lineItems, ledgerVars, pdfPages, doc, jobs, objects,
                 orch, inflight, sweep, hist, workers>>

InitExportSpec ==
  /\ PipelineAtRest
  /\ \E profile \in Profiles, practice \in Practices, isBatch \in BOOLEAN,
        docs \in UNION {[1..n -> DocRows] : n \in 1..MaxDocs} :
       /\ (Len(docs) > 1 => isBatch)
       /\ export = [InitExport EXCEPT !.profile = profile, !.practice = practice,
                                      !.isBatch = isBatch, !.docs = docs]

NextExport ==
  \/ ExportStart
  \/ ExportQuery
  \/ ExportDoc
  \/ ExportEnvelope
  \/ ExportStamp

SpecExport == InitExportSpec /\ [][NextExport]_vars

(***************************************************************************)
(* eob-worker: deduplicateItems on items with their fields (SpecDedup).    *)
(* The operator deduplicateItems above is the same loop on the composite   *)
(* keys alone.  An item carries the five key fields, two further fields    *)
(* (billed_amount, remark_code), its confidence_score and its line_type;   *)
(* a missing amount or score is NullAmount, a missing text the empty       *)
(* string.  cpt_code and date_of_service are present or absent together.   *)
(***************************************************************************)
ItemFields == {"claim_number", "patient_name", "cpt_code", "date_of_service",
               "paid_amount", "billed_amount", "remark_code",
               "confidence_score", "line_type"}

NumberFields == {"paid_amount", "billed_amount", "confidence_score"}

\* the fields counted by quality() that an item of the model carries
QualityFields == {"billed_amount", "paid_amount", "remark_code", "claim_number"}

Items ==
  {it \in [claim_number : {"", "C1"},
           patient_name : {"", "JANE DOE", "jane doe "},
           cpt_code : {"", "99213"},
           date_of_service : {"", "2024-01-05"},
           paid_amount : {NullAmount, 150},
           billed_amount : {NullAmount, 200},
           remark_code : {"", "CO45"},
           confidence_score : {NullAmount, 80, 95},
           line_type : {"detail", "summary_total"}] :
     (it.cpt_code = "") <=> (it.date_of_service = "")}

\* (s || '').trim().toUpperCase() on the texts of the model
trim_upper(s) == IF s = "jane doe " THEN "JANE DOE" ELSE s

\* v === null || v === undefined || v === ''
is_blank(field, v) == IF field \in NumberFields THEN v = NullAmount ELSE v = ""

keyOf_Raw(it) ==
  <<it.claim_number, it.patient_name, it.cpt_code, it.date_of_service, it.paid_amount>>

\* keyOf: claim number, patient name and cpt_code trimmed and upper-cased,
\* service date, String(parseCurrency(paid_amount) ?? '')
keyOf(it) ==
  <<it.claim_number, trim_upper(it.patient_name), trim_upper(it.cpt_code),
    it.date_of_service, it.paid_amount>>

\* the key '||||' of an item whose five key fields are all empty
NoKey == <<"", "", "", "", NullAmount>>

\* parseInt(it.confidence_score) || 0
confidence_of(it) ==
  IF it.confidence_score = NullAmount THEN 0 ELSE it.confidence_score

\* quality(it), times 100: the populated fields, plus confidence / 100
quality(it) ==
  100 * Cardinality({f \in QualityFields : ~is_blank(f, it[f])}) + confidence_of(it)

\* Math.max(winnerConf, donorConf)
max_confidence(winner, donor) ==
  IF confidence_of(winner) >= confidence_of(donor)
    THEN confidence_of(winner) ELSE confidence_of(donor)

merge_items_NoFill(item, existing) ==
  LET winner == IF quality(item) >= quality(existing) THEN item ELSE existing
      donor == IF quality(item) >= quality(existing) THEN existing ELSE item
  IN  [winner EXCEPT !.confidence_score = max_confidence(winner, donor)]

\* merged = { ...winner }, blanks filled from the donor, the higher
\* confidence score
merge_items(item, existing) ==
  LET winner == IF quality(item) >= quality(existing) THEN item ELSE existing
      donor == IF quality(item) >= quality(existing) THEN existing ELSE item
  IN  [f \in ItemFields |->
         IF f = "confidence_score" THEN max_confidence(winner, donor)
         ELSE IF is_blank(f, winner[f]) /\ ~is_blank(f, donor[f]) THEN donor[f]
         ELSE winner[f]]

RECURSIVE dedup_loop_NoSummaryCheck(_, _)
dedup_loop_NoSummaryCheck(items, groups) ==
  IF items = << >> THEN groups
  ELSE LET item == Head(items)
           k == keyOf(item)
           found == {g \in 1..Len(groups) : ~groups[g].unique /\ groups[g].k = k}
       IN  dedup_loop_NoSummaryCheck(Tail(items),
             IF k = NoKey
               THEN Append(groups, [unique |-> TRUE, k |-> k, item |-> item])
             ELSE IF found = {}
               THEN Append(groups, [unique |-> FALSE, k |-> k, item |-> item])
             ELSE [g \in 1..Len(groups) |->
                     IF g \in found
                       THEN [groups[g] EXCEPT !.item = merge_items(item, @)]
                       ELSE groups[g]])

\* the loop over the items: groups is the Map in insertion order, each entry
\* the key and the item kept under it ("unique": a __summary_ or __nokey_
\* key, which no later item finds)
RECURSIVE dedup_loop(_, _)
dedup_loop(items, groups) ==
  IF items = << >> THEN groups
  ELSE LET item == Head(items)
           k == keyOf(item)
           found == {g \in 1..Len(groups) : ~groups[g].unique /\ groups[g].k = k}
       IN  dedup_loop(Tail(items),
             IF item.line_type = "summary_total" \/ k = NoKey
               THEN Append(groups, [unique |-> TRUE, k |-> k, item |-> item])
             ELSE IF found = {}
               THEN Append(groups, [unique |-> FALSE, k |-> k, item |-> item])
             ELSE [g \in 1..Len(groups) |->
                     IF g \in found
                       THEN [groups[g] EXCEPT !.item = merge_items(item, @)]
                       ELSE groups[g]])

\* deduplicateItems(items): Array.from(groups.values())
deduplicateItemRecords(items) ==
  IF Len(items) <= 1 THEN items
  ELSE LET groups == dedup_loop(items, << >>)
       IN  [g \in 1..Len(groups) |-> groups[g].item]

\* items of one claim line (C1, 99213 on 2024-01-05, paid 150) that differ
\* in the spelling of the name, the fields they carry, score and type,
\* and one item without any key field
FewItems ==
  {it \in Items :
     \/ /\ it.claim_number = "C1" /\ it.patient_name # "" /\ it.cpt_code # ""
        /\ it.paid_amount = 150 /\ it.confidence_score # NullAmount
        /\ (it.billed_amount = NullAmount) <=> (it.remark_code # "")
     \/ /\ keyOf(it) = NoKey /\ it.line_type = "detail"
        /\ it.billed_amount = 200 /\ it.remark_code = ""
        /\ it.confidence_score = 80}

\* the parsed lists: every pair of items, and every list of up to
\* MaxDedup of the few items
ItemLists == [1..2 -> Items] \cup UNION {[1..n -> FewItems] : n \in 0..MaxDedup}

\* the Worker has parsed the items and deduplicates them
DedupApply ==
  /\ workers[1].pc = "parsed"
  /\ workers' = [workers EXCEPT ![1] =
       [@ EXCEPT !.pc = "deduplicated",
                 !.extracted = deduplicateItemRecords(workers[1].raw)]]
  /\ UNCHANGED <<export, reproc, lineItems, ledgerVars, pdfPages, doc, jobs,
                 objects, orch, inflight, sweep, hist>>

\* deduplicateItems applied to its own output
DedupAgain ==
  /\ workers[1].pc = "deduplicated"
  /\ workers' = [workers EXCEPT ![1] =
       [@ EXCEPT !.pc = "again",
                 !.again = deduplicateItemRecords(workers[1].extracted)]]
  /\ UNCHANGED <<export, reproc, lineItems, ledgerVars, pdfPages, doc, jobs,
                 objects, orch, inflight, sweep, hist>>

InitDedup ==
  /\ credits = [t \in Tenants |-> 0]
  /\ credits0 = credits
  /\ rowLock = [t \in Tenants |-> 0]
  /\ calls = [c \in CallIds |-> [pc |-> "done", practice |-> "p2", amount |-> 1,
                                 v_balance |-> 0, result |-> "none"]]
  /\ refundCount = [t \in Tenants |-> 0]
  /\ pdfPages = 1
  /\ doc = [status |-> "processing", total_pages |-> 1, items_extracted |-> 0,
            stale |-> FALSE]
  /\ jobs = enqueue_all(1)
  /\ objects = {1}
  /\ orch = [o \in OrchIds |-> InitOrch]
  /\ inflight = [p \in Pages |-> 0]
  /\ sweep = [s \in SweepIds |-> InitSweep]
  /\ hist = [InitHist EXCEPT !.charged = 1]
  /\ lineItems = NoLineItems
  /\ reproc = InitReproc
  /\ export = InitExport
  /\ \E items \in ItemLists :
       workers = [w \in {1} |-> [pc |-> "parsed", page |-> 1,
                                 raw |-> items, extracted |-> << >>,
                                 again |-> << >>]]

NextDedup == DedupApply \/ DedupAgain

SpecDedup == InitDedup /\ [][NextDedup]_vars

(***************************************************************************)
(* Claims on the Credit Ledger (SpecLedger).                               *)
(***************************************************************************)
CallsOf(t) == {c \in CallIds : calls[c].practice = t}

\* the calls against t have all returned, they all asked for amount A, no
\* refund reached t, and there were at least floor(B/A) of them
ChargeRace(t, A) ==
  /\ t \in DOMAIN credits0
  /\ \A c \in CallsOf(t) : calls[c].pc = "done" /\ calls[c].amount = A
  /\ refundCount[t] = 0
  /\ Cardinality(CallsOf(t)) >= credits0[t] \div A

\* C1: charge atomicity. When n >= floor(B/A) concurrent use_parsing_credit
\* calls of amount A against a practice with balance B have all returned
\* (no refunds in between), exactly floor(B/A) of them returned true,
\* whatever the interleaving of their statements.
C1_ChargeAtomicity ==
  \A t \in Tenants : \A A \in 1..MaxAmount :
    ChargeRace(t, A) =>
      Cardinality({c \in CallsOf(t) : calls[c].result = "true"}) = credits0[t] \div A

\* three calls of the same amount raced on one practice; some won, some lost
C1_Witness ==
  \E t \in Tenants : \E A \in 1..MaxAmount :
    /\ ChargeRace(t, A)
    /\ Cardinality(CallsOf(t)) = NumCalls
    /\ \E c \in CallsOf(t) : calls[c].result = "true"
    /\ \E c \in CallsOf(t) : calls[c].result = "false"

\* C2: credits_remaining is never negative, for every interleaving of
\* charges (use_parsing_credit) and refunds (refund_parsing_credit).
C2_BalanceNeverNegative ==
  \A t \in DOMAIN credits : credits[t] >= 0

\* a balance was charged down to zero while refunds were interleaved
C2_Witness ==
  \E t \in DOMAIN credits :
    /\ credits[t] = 0
    /\ credits0[t] > 0
    /\ refundCount[t] > 0
    /\ \E c \in CallsOf(t) : calls[c].result = "true"
    /\ \E c \in CallsOf(t) : calls[c].result = "false"

(***************************************************************************)
(* Claims on the pipeline (Spec).                                          *)
(***************************************************************************)
Admissible == pdfPages >= 1 /\ pdfPages <= 500

AllPagesFailed ==
  /\ Admissible
  /\ DOMAIN jobs = 1..pdfPages
  /\ \A p \in DOMAIN jobs : jobs[p].status = "failed"

\* no invocation is running and no Worker result is outstanding
Quiescent ==
  /\ \A o \in OrchIds : orch[o].pc \in {"start", "rejected", "error", "done"}
  /\ \A s \in SweepIds : sweep[s].pc \in {"idle", "done"}
  /\ \A p \in Pages : inflight[p] = 0

\* C3: when the balance is below the page count, the charge returns false
\* and leaves every balance unchanged, and the eob-enqueue invocation that
\* issued it ends rejected with the Document row and the Page Jobs unchanged.
C3_InsufficientRejected ==
  [][\A o \in OrchIds :
       ( /\ orch[o].pc = "start"
         /\ orch'[o].pc # "start"
         /\ Admissible
         /\ DocPractice \in DOMAIN credits
         /\ credits[DocPractice] < pdfPages )
       => ( /\ orch'[o].pc = "rejected"
            /\ credits' = credits
            /\ doc' = doc
            /\ jobs' = jobs )]_vars

\* every allowed invocation was refused for a 2-page document on a balance
\* of 1: nothing was charged, the Document is untouched, no job exists
C3_Witness ==
  /\ pdfPages = 2
  /\ DocPractice \in DOMAIN credits
  /\ credits0[DocPractice] = 1
  /\ \A o \in OrchIds : orch[o].pc = "rejected"
  /\ credits = credits0
  /\ doc = InitDoc
  /\ jobs = << >>

\* C4: once every Page Job of a once-charged Document is permanently failed
\* and the Document is failed, with nothing left running, the practice has
\* its page-count charge back.
C4_TotalFailureRefund ==
  ( /\ Quiescent
    /\ AllPagesFailed
    /\ doc.status = "failed"
    /\ hist.charged = pdfPages
    /\ hist.refundedOrch = 0 )
  => credits[DocPractice] >= credits0[DocPractice]

\* C5: the credits refunded for a Document whose pages all failed never
\* exceed its page count, however many Sweeper passes handle it.
C5_RefundAtMostOnce ==
  AllPagesFailed => hist.refundedSweep <= pdfPages

\* C6: whatever the number of eob-enqueue invocations for the Document, the
\* practice's net debit for it is at most its page count.
C6_NeverDoubleCharge ==
  hist.charged - hist.refundedOrch - hist.refundedSweep <= pdfPages

\* C7: when an eob-enqueue invocation fails after its charge (document
\* update, page upload or enqueue RPC), the practice gets the full page
\* count back and the Document becomes failed.
C7_OrchestrationFailureRefund ==
  [][\A o \in OrchIds :
       (orch[o].pc \in {"docupdate", "pages"} /\ orch'[o].pc = "error")
       => ( /\ credits'[DocPractice] = credits[DocPractice] + pdfPages
            /\ doc'.status = "failed" )]_vars

\* C8: an invocation that ends in an admission error has charged nothing,
\* changed no Document field, created no Page Job or page object and
\* refunded nothing; and a PDF with zero pages or more than 500 pages never
\* gets past admission.
C8_RejectStep ==
  \A o \in OrchIds :
    (orch[o].pc = "start" /\ orch'[o].pc = "rejected")
    => ( /\ credits' = credits
         /\ doc' = doc
         /\ jobs' = jobs
         /\ objects' = objects
         /\ hist' = hist )

C8_Inadmissible ==
  ~Admissible =>
    ( /\ \A o \in OrchIds : orch[o].pc \in {"start", "rejected"}
      /\ credits = credits0
      /\ doc.status = "pending" /\ doc.total_pages = 0
      /\ jobs = << >>
      /\ hist = InitHist )

C8_AdmissionErrorsBeforeCharge ==
  [][C8_RejectStep]_vars /\ []C8_Inadmissible

\* an oversized PDF was refused by every allowed invocation
C8_Witness ==
  /\ pdfPages = MAX_PAGES_PER_DOC + 1
  /\ \A o \in OrchIds : orch[o].pc = "rejected"
  /\ credits = credits0
  /\ doc = InitDoc

\* C10: a Page Job's status only ever moves queued -> succeeded, retryable
\* or failed, and retryable -> queued; a succeeded or failed job keeps its
\* status whatever Worker result or Sweeper action comes later.
C10_Allowed(from, to) ==
  \/ from = to
  \/ from = "queued" /\ to \in {"succeeded", "retryable", "failed"}
  \/ from = "retryable" /\ to = "queued"

C10_PageJobStateMachine ==
  [][\A p \in DOMAIN jobs :
       p \in DOMAIN jobs' /\ C10_Allowed(jobs[p].status, jobs'[p].status)]_vars

(***************************************************************************)
(* Claims on the Worker (SpecWorker).                                      *)
(***************************************************************************)
\* C9: a fail_eob_page_job call raises attempt_count by exactly 1 and sets
\* the status to failed when the new attempt_count >= max_attempts, else to
\* retryable; a failed Worker invocation consumes exactly one attempt, so a
\* job's attempt_count equals the number of failed invocations that reported
\* their failure for it, however many 429/503 retries they made.
C9_FailStep ==
  \A p \in DOMAIN jobs :
    jobs'[p].attempt_count # jobs[p].attempt_count
    => ( /\ jobs'[p].attempt_count = jobs[p].attempt_count + 1
         /\ jobs'[p].status = IF jobs'[p].attempt_count >= 3 THEN "failed"
                              ELSE "retryable" )

C9_OneAttemptPerInvocation ==
  \A p \in DOMAIN jobs : jobs[p].attempt_count = hist.failedRuns[p]

JobTerminal(st) == st \in {"succeeded", "failed"}

AllPagesTerminal ==
  /\ Admissible
  /\ DOMAIN jobs = 1..pdfPages
  /\ \A p \in DOMAIN jobs : JobTerminal(jobs[p].status)

SucceededPages == {p \in DOMAIN jobs : jobs[p].status = "succeeded"}

RECURSIVE ItemsOver(_)
ItemsOver(S) ==
  IF S = {} THEN 0
  ELSE LET p == CHOOSE x \in S : TRUE IN jobs[p].items_extracted + ItemsOver(S \ {p})

\* C11: in every reachable state, a Document that is completed,
\* partial_failure or failed has all of its total_pages Page Jobs in a
\* terminal state (succeeded or failed).
C11_RollupGating ==
  DocTerminal(doc.status) =>
    \A p \in 1..doc.total_pages : p \in DOMAIN jobs /\ JobTerminal(jobs[p].status)

C13_RollupIdempotence ==
  [][( /\ DocTerminal(doc.status)
       /\ AllPagesTerminal
       /\ orch' = orch
       /\ DOMAIN jobs' = DOMAIN jobs
       /\ \A p \in DOMAIN jobs :
            /\ jobs'[p].status = jobs[p].status
            /\ jobs'[p].items_extracted = jobs[p].items_extracted )
     => ( /\ doc'.status = doc.status
          /\ doc'.items_extracted = doc.items_extracted
          /\ credits' = credits )]_vars

\* C14: whenever the Document is completed or partial_failure, its
\* items_extracted equals the sum of items_extracted over its succeeded
\* Page Jobs.
C14_ItemsRollup ==
  doc.status \in {"completed", "partial_failure"} =>
    doc.items_extracted = ItemsOver(SucceededPages)

\* C15: no credit is refunded for a Document with a succeeded page: while
\* the Document is completed or partial_failure, the practice's balance is
\* not above its balance before the upload minus the page count.
C15_NoRefundOnSuccess ==
  ( /\ doc.status \in {"completed", "partial_failure"}
    /\ SucceededPages # {} )
  => credits[DocPractice] <= credits0[DocPractice] - pdfPages

(***************************************************************************)
(* Claims on the line-item store (SpecStore).                              *)
(***************************************************************************)
\* every run other than w is idle or had returned before w began
RunsAlone(w) ==
  \A v \in StoreRunIds \ {w} : workers[v].pc = "idle" \/ v \in workers[w].after

\* C16: after the Worker ran twice in sequence on the same page job with
\* the same extraction response (both runs succeeding, nothing else
\* running), the table holds for that page exactly one copy of the
\* deduplicated item set.
C16_IdempotentReplace ==
  \A v, w \in StoreRunIds :
    ( /\ workers[v].pc = "succeeded" /\ workers[w].pc = "succeeded"
      /\ v \in workers[w].after
      /\ workers[v].page = workers[w].page
      /\ workers[v].raw = workers[w].raw
      /\ \A u \in StoreRunIds \ {v, w} : workers[u].pc = "idle" )
    => lineItems[workers[w].page] = RowsOf(workers[w].extracted)

\* C17: when a Worker run that ran alone finishes with success, the rows
\* stored for its page are exactly the deduplicated set of that run (none,
\* when it extracted zero items or got no usable payload).
C17_CompleteReplacement ==
  [][\A w \in StoreRunIds :
       ( /\ workers[w].pc # "succeeded"
         /\ workers'[w].pc = "succeeded"
         /\ RunsAlone(w) )
       => lineItems'[workers[w].page] = RowsOf(workers[w].extracted)]_vars

\* C18: after two concurrent Worker runs for the same page job with the same
\* extraction response have both succeeded, all of their store requests
\* having succeeded, the table holds exactly one copy of the page's
\* deduplicated item set.
C18_DoubleDispatchConvergence ==
  \A v, w \in StoreRunIds :
    ( /\ v # w
      /\ workers[v].pc = "succeeded" /\ workers[w].pc = "succeeded"
      /\ v \notin workers[w].after /\ w \notin workers[v].after
      /\ workers[v].page = workers[w].page
      /\ workers[v].raw = workers[w].raw
      /\ workers[v].delOk /\ workers[w].delOk
      /\ \A u \in StoreRunIds \ {v, w} : workers[u].pc = "idle" )
    => lineItems[workers[w].page] = RowsOf(workers[w].extracted)

\* C19: when a Worker run that ran alone fails, the rows stored for its page
\* are either exactly those stored before the run or exactly the run's full
\* deduplicated set.
C19_NoPartialWrites ==
  [][\A w \in StoreRunIds :
       ( /\ workers[w].pc = "catch"
         /\ workers'[w].pc = "failed"
         /\ RunsAlone(w) )
       => \/ lineItems'[workers[w].page] = workers[w].prev
          \/ lineItems'[workers[w].page] = RowsOf(workers[w].extracted)]_vars

RollupTable ==
  IF Cardinality(SucceededPages) = pdfPages THEN "completed"
  ELSE IF Cardinality(SucceededPages) = 0 THEN "failed"
  ELSE "partial_failure"

C22_SweepRecovery ==
  [][\A s \in SweepIds :
       (sweep[s].pc = "retryfire" /\ sweep'[s].pc = "retry")
         => sweep[s].cur \notin sweep[s].fired]_vars

\* C23: whatever the interleaving of Sweeper passes and Workers, no step
\* moves a Page Job that is succeeded or failed back to queued.
C23_SweeperSafety ==
  [][\A p \in DOMAIN jobs :
       JobTerminal(jobs[p].status) => jobs'[p].status # "queued"]_vars

(***************************************************************************)
(* Claims on the Page Job rows (SpecReprocess).                            *)
(***************************************************************************)
\* C24: the attempt_count of a (document, page) pair never decreases: the
\* job row of a page is never below the attempt_count an earlier row of
\* that page had reached.
C24_AttemptCountMonotonic ==
  \A p \in DOMAIN jobs : jobs[p].attempt_count >= reproc.attempts[p]

\* C25: a Page Job row is never deleted (and so never created anew), and an
\* enqueue for a page that has a job leaves the job's status and
\* attempt_count as they were.
C25_OneJobPerPage ==
  [][/\ DOMAIN jobs \subseteq DOMAIN jobs'
     /\ \A o \in OrchIds : \A p \in DOMAIN jobs \cap DOMAIN jobs' :
          (orch[o].pc = "pages" /\ orch[o].page = p /\ orch'[o] # orch[o])
            => /\ jobs'[p].status = jobs[p].status
               /\ jobs'[p].attempt_count = jobs[p].attempt_count]_vars

(***************************************************************************)
(* Claims on the remittance encoder (SpecEncoder).                         *)
(***************************************************************************)
\* where the claim opened by the CLP at position j ends: before the next CLP
\* or SE, or at the end of the segments
ClaimEnd(segs, j) ==
  LET later == {k \in (j + 1)..Len(segs) : segs[k].tag \in {"CLP", "SE"}}
  IN  IF later = {} THEN Len(segs)
      ELSE (CHOOSE k \in later : \A m \in later : k <= m) - 1

\* the SVC segments emitted under the CLP at position j
SvcUnder(segs, j) ==
  SelectSeq(SubSeq(segs, j + 1, ClaimEnd(segs, j)), LAMBDA g : g.tag = "SVC")

RECURSIVE SumField(_, _)
SumField(segs, field) ==
  IF segs = << >> THEN 0 ELSE Head(segs)[field] + SumField(Tail(segs), field)

ClpPositions(segs) == {j \in 1..Len(segs) : segs[j].tag = "CLP"}

\* the billed and paid amounts of the input lines of one claim, null read as 0
LineAmounts(bqRows, key) ==
  LET lines == SelectSeq(bqRows, LAMBDA row : claim_key(row) = key)
  IN  [n \in 1..Len(lines) |->
         <<IF lines[n].billed_amount = NullAmount THEN 0 ELSE lines[n].billed_amount,
           IF lines[n].paid_amount = NullAmount THEN 0 ELSE lines[n].paid_amount>>]

\* C27 (claim totals): in the encoded body every CLP's billed total is the
\* sum of the billed amounts of the SVC lines under it and its paid total
\* the sum of their paid amounts, in integer cents; and every input line
\* is under exactly one claim: the CLPs name distinct claims, every input
\* line's claim has a CLP, and the SVC lines under a CLP are exactly the
\* input lines of that claim.
C27_ClaimTotals ==
  export.pc = "built" =>
    LET segs == export.allTransactionSegments
        bqRows == export.docs[1]
    IN  /\ \A j \in ClpPositions(segs) :
             /\ segs[j].a = SumField(SvcUnder(segs, j), "a")
             /\ segs[j].b = SumField(SvcUnder(segs, j), "b")
             /\ [n \in 1..Len(SvcUnder(segs, j)) |->
                   <<SvcUnder(segs, j)[n].a, SvcUnder(segs, j)[n].b>>]
                  = LineAmounts(bqRows, segs[j].id)
        /\ \A j, k \in ClpPositions(segs) : segs[j].id = segs[k].id => j = k
        /\ \A n \in 1..Len(bqRows) :
             \E j \in ClpPositions(segs) : segs[j].id = claim_key(bqRows[n])

\* three lines in two claims were encoded; the two lines of claim C1 add up
\* to 3 cents billed and 1 cent paid
C27_Witness ==
  /\ export.pc = "built"
  /\ Len(export.docs[1]) = 3
  /\ Cardinality(ClpPositions(export.allTransactionSegments)) = 2
  /\ \E j \in ClpPositions(export.allTransactionSegments) :
       /\ export.allTransactionSegments[j].id = "C1"
       /\ Len(SvcUnder(export.allTransactionSegments, j)) = 2
       /\ export.allTransactionSegments[j].a = 3
       /\ export.allTransactionSegments[j].b = 1

(***************************************************************************)
(* Claims on the generation handler (SpecExport).                          *)
(***************************************************************************)
TagPositions(segs, tag) == {j \in 1..Len(segs) : segs[j].tag = tag}

\* the ST that opens the transaction set closed by the SE at position j
StOf(segs, j) ==
  CHOOSE k \in TagPositions(segs, "ST") :
    /\ k < j
    /\ \A m \in TagPositions(segs, "ST") : m < j => m <= k

\* C26 (envelope integrity): in every generated file the GE trailer
\* declares the number of ST headers in the file, every SE trailer
\* declares the number of segments from its ST through itself and carries
\* its ST's control number, and every ST is closed by one SE.
C26_EnvelopeIntegrity ==
  export.file # << >> =>
    LET file == export.file
    IN  /\ Cardinality(TagPositions(file, "GE")) = 1
        /\ \A g \in TagPositions(file, "GE") :
             file[g].a = Cardinality(TagPositions(file, "ST"))
        /\ Cardinality(TagPositions(file, "SE")) = Cardinality(TagPositions(file, "ST"))
        /\ \A j \in TagPositions(file, "SE") :
             /\ \E k \in TagPositions(file, "ST") : k < j
             /\ \A m \in TagPositions(file, "SE") : ~(StOf(file, j) < m /\ m < j)
             /\ file[j].a = j - StOf(file, j) + 1
             /\ file[j].b = file[StOf(file, j)].a

\* a batch file of two transaction sets of different lengths was returned
C26_Witness ==
  /\ export.pc = "done"
  /\ Cardinality(TagPositions(export.file, "ST")) = 2
  /\ \E j, k \in TagPositions(export.file, "SE") : export.file[j].a # export.file[k].a

\* C28 (export lock): a requested Document that carries the export stamp is
\* not encoded by a turn of the per-Document loop, and an invocation whose
\* Documents all carry the stamp returns no file and writes no stamp.
C28_ExportLock ==
  [][/\ (export.pc = "docs" /\ export.i \in export.locked)
          => export'.allTransactionSegments = export.allTransactionSegments
     /\ (export.pc = "stamp" /\ (1..Len(export.docs)) \subseteq export.locked)
          => (export'.files = export.files /\ export'.stamps = export.stamps)]_vars

\* C29 (encoder fails closed): with the practice row missing, or without a
\* tax id or an NPI, every invocation ends in the error answer: nothing is
\* encoded, no file is built or returned and no Document is stamped.
C29_FailsClosed ==
  export.profile \in {"missing", "no_tax_id", "no_npi"} =>
    /\ export.pc \in {"idle", "error"}
    /\ export.allTransactionSegments = << >>
    /\ export.file = << >>
    /\ export.files = 0
    /\ export.stamps = 0
    /\ export.locked = {}

\* a practice without NPI was asked twice for a Document that has rows, and
\* the second invocation ended in the error answer too
C29_Witness ==
  /\ export.profile = "no_npi"
  /\ export.runs = 2
  /\ export.pc = "error"
  /\ export.docs[1] # << >>

(***************************************************************************)
(* Claims on the dedup merge (SpecDedup).                                  *)
(***************************************************************************)
SameKey(x, y) ==
  /\ x.claim_number = y.claim_number
  /\ trim_upper(x.patient_name) = trim_upper(y.patient_name)
  /\ trim_upper(x.cpt_code) = trim_upper(y.cpt_code)
  /\ x.date_of_service = y.date_of_service
  /\ x.paid_amount = y.paid_amount

DataFields == ItemFields \ {"confidence_score", "line_type"}

\* each item has a field the other lacks
Complementary(x, y) ==
  /\ \E f \in DataFields : is_blank(f, x[f]) /\ ~is_blank(f, y[f])
  /\ \E f \in DataFields : is_blank(f, y[f]) /\ ~is_blank(f, x[f])

ScoreOf(it) == IF it.confidence_score = NullAmount THEN 0 ELSE it.confidence_score

\* out is one item, every field of it non-empty if it is non-empty in x or
\* in y, its confidence score the larger of the two (a missing score is 0)
MergedInto(x, y, out) ==
  /\ Len(out) = 1
  /\ \A f \in ItemFields \ {"confidence_score"} :
       (~is_blank(f, x[f]) \/ ~is_blank(f, y[f])) => ~is_blank(f, out[1][f])
  /\ out[1].confidence_score = IF ScoreOf(x) >= ScoreOf(y) THEN ScoreOf(x) ELSE ScoreOf(y)

\* C30 (dedup merge), as stated: two input items with the same (claim
\* number, upper-cased trimmed patient name, upper-cased trimmed procedure
\* code, service date, paid amount) key and complementary empty fields
\* are merged into exactly one output item whose every field is non-empty
\* if it was non-empty in either input and whose confidence score is the
\* maximum of the two.
C30_DedupMerge ==
  (workers[1].pc = "deduplicated" /\ Len(workers[1].raw) = 2) =>
    LET x == workers[1].raw[1]
        y == workers[1].raw[2]
    IN  (SameKey(x, y) /\ Complementary(x, y)) => MergedInto(x, y, workers[1].extracted)

\* C30 (dedup merge), amended: the same for two input items neither of
\* which is of type summary_total and whose key has at least one non-empty
\* component.
C30_DedupMergeDetail ==
  (workers[1].pc = "deduplicated" /\ Len(workers[1].raw) = 2) =>
    LET x == workers[1].raw[1]
        y == workers[1].raw[2]
    IN  (/\ SameKey(x, y) /\ Complementary(x, y)
         /\ x.line_type # "summary_total" /\ y.line_type # "summary_total"
         /\ ~(/\ x.claim_number = "" /\ trim_upper(x.patient_name) = ""
              /\ trim_upper(x.cpt_code) = "" /\ x.date_of_service = ""
              /\ x.paid_amount = NullAmount))
        => MergedInto(x, y, workers[1].extracted)

\* claim C1 of JANE DOE, 99213 on 2024-01-05, paid 150: one item has the
\* billed amount and score 80, the other (name in lower case with a
\* trailing blank) the remark code and score 95; the output is one item
\* with both and score 95
C30_Witness ==
  /\ workers[1].pc = "deduplicated"
  /\ workers[1].raw[1] = [claim_number |-> "C1", patient_name |-> "JANE DOE",
                          cpt_code |-> "99213", date_of_service |-> "2024-01-05",
                          paid_amount |-> 150, billed_amount |-> 200,
                          remark_code |-> "", confidence_score |-> 80,
                          line_type |-> "detail"]
  /\ workers[1].raw[2] = [claim_number |-> "C1", patient_name |-> "jane doe ",
                          cpt_code |-> "99213", date_of_service |-> "2024-01-05",
                          paid_amount |-> 150, billed_amount |-> NullAmount,
                          remark_code |-> "CO45", confidence_score |-> 95,
                          line_type |-> "detail"]
  /\ Len(workers[1].extracted) = 1
  /\ workers[1].extracted[1].billed_amount = 200
  /\ workers[1].extracted[1].remark_code = "CO45"
  /\ workers[1].extracted[1].confidence_score = 95

IsSummary(it) == it.line_type = "summary_total"

Summaries(items) == SelectSeq(items, IsSummary)

Details(items) == SelectSeq(items, LAMBDA it : ~IsSummary(it))

\* every field of the output item o is a field of a non-summary input item
\* or, for the score, a score of one (a missing score read as 0)
FromDetails(o, items) ==
  \A f \in ItemFields :
    \E n \in 1..Len(items) :
      /\ ~IsSummary(items[n])
      /\ \/ o[f] = items[n][f]
         \/ f = "confidence_score" /\ o[f] = ScoreOf(items[n])

\* C31 (summary rows are never merged): for every input list the
\* summary_total items of the output are the summary_total items of the
\* input, unchanged, as many and in the same order, and no summary_total
\* item contributes a field to another item: every other output item holds
\* only field values of non-summary input items, and there are as many of
\* them as when the summary rows are left out of the input.
C31_SummaryNeverMerged ==
  workers[1].pc = "deduplicated" =>
    LET items == workers[1].raw
        out == workers[1].extracted
    IN  /\ Summaries(out) = Summaries(items)
        /\ \A n \in 1..Len(Details(out)) : FromDetails(Details(out)[n], items)
        /\ Len(Details(out)) = Len(deduplicateItemRecords(Details(items)))

\* a summary_total item stood between two detail items of the same key, one
\* with the billed amount and one with the remark code, and carried a
\* remark code itself: the details merged, the summary row stayed
C31_Witness ==
  /\ workers[1].pc = "deduplicated"
  /\ Len(workers[1].raw) = 3
  /\ ~IsSummary(workers[1].raw[1]) /\ IsSummary(workers[1].raw[2])
  /\ ~IsSummary(workers[1].raw[3])
  /\ workers[1].raw[1].remark_code = "" /\ workers[1].raw[3].remark_code = "CO45"
  /\ Len(workers[1].extracted) = 2
  /\ workers[1].extracted[2] = workers[1].raw[2]
  /\ workers[1].extracted[1].remark_code = "CO45"
  /\ workers[1].extracted[1].billed_amount = 200

\* C40 (dedup is idempotent and non-expanding): for every input list the
\* output has at most as many items as the input, no two output items that
\* are not summary rows and have a non-empty key have the same key, and
\* deduplicateItems applied to the output returns the output.
C40_DedupIdempotent ==
  /\ workers[1].pc \in {"deduplicated", "again"} =>
       LET out == workers[1].extracted
       IN  /\ Len(out) <= Len(workers[1].raw)
           /\ \A m, n \in 1..Len(out) :
                (/\ m # n /\ ~IsSummary(out[m]) /\ ~IsSummary(out[n])
                 /\ SameKey(out[m], out[n]))
                => (/\ out[m].claim_number = "" /\ trim_upper(out[m].patient_name) = ""
                    /\ trim_upper(out[m].cpt_code) = "" /\ out[m].date_of_service = ""
                    /\ out[m].paid_amount = NullAmount)
  /\ workers[1].pc = "again" => workers[1].again = workers[1].extracted

\* three detail items of one key in two spellings of the name were merged
\* into one, and the second application returned that one item
C40_Witness ==
  /\ workers[1].pc = "again"
  /\ Len(workers[1].raw) = 3
  /\ \A n \in 1..3 : ~IsSummary(workers[1].raw[n])
  /\ workers[1].raw[1].patient_name # workers[1].raw[2].patient_name
  /\ SameKey(workers[1].raw[1], workers[1].raw[2])
  /\ SameKey(workers[1].raw[2], workers[1].raw[3])
  /\ Len(workers[1].extracted) = 1
  /\ workers[1].again = workers[1].extracted

(***************************************************************************)
(* Claims on the Worker's extraction calls (SpecRetry).                    *)
(***************************************************************************)
\* invocation w makes an extraction call in this step
CallsNow(w) == workers'[w].calls = workers[w].calls + 1

\* C32 (bounded upstream retry): an invocation makes at most 3 extraction
\* calls; a call after the first follows a 429 or 503 response; after a
\* response with any other error the invocation is on its failure path
\* without another call; after the third 429 or 503 in a row it is on its
\* failure path; and it goes round the loop again only after 429 or 503.
C32_BoundedRetry ==
  [][\A w \in WorkerIds :
       /\ workers'[w].calls <= 3
       /\ CallsNow(w) =>
            /\ workers[w].calls >= 1 => workers[w].last \in {"429", "503"}
            /\ workers'[w].last = "other" => workers'[w].pc = "catch"
            /\ (workers'[w].calls = 3 /\ workers'[w].last \in {"429", "503"})
                 => workers'[w].pc = "catch"
            /\ workers'[w].pc = "gemini" => workers'[w].last \in {"429", "503"}
       /\ workers[w].pc = "catch" => workers'[w].calls = workers[w].calls]_vars

\* one invocation failed after a 429 or 503 on each of three calls, another
\* after a single call that met another error
C32_Witness ==
  \E w, v \in WorkerIds :
    /\ workers[w].pc = "failed" /\ workers[w].calls = 3
    /\ workers[w].last \in {"429", "503"}
    /\ workers[v].pc = "failed" /\ workers[v].calls = 1
    /\ workers[v].last = "other"

(***************************************************************************)
(* Claims on the Worker's outcome (SpecStore).                             *)
(***************************************************************************)
\* invocation w takes the no-candidates branch in this step: from the
\* extraction response straight to its end
BlankPageStep(w) == workers[w].pc = "gemini" /\ workers'[w].pc = "succeeded"

\* C33 (blank page is success): when the extraction response holds no
\* usable payload the invocation sets its job to succeeded with
\* items_extracted = 0, leaves the job's attempt_count as it was, and
\* inserts no Line Items (the table is left as it was).
C33_BlankPageSuccess ==
  [][\A w \in StoreRunIds :
       BlankPageStep(w) =>
         /\ jobs'[workers[w].page].status = "succeeded"
         /\ jobs'[workers[w].page].items_extracted = 0
         /\ jobs'[workers[w].page].attempt_count = jobs[workers[w].page].attempt_count
         /\ lineItems' = lineItems]_vars

\* after a first invocation failed on the page (attempt_count 1, a row of
\* its partial insert left in the table), a second one that parsed nothing
\* ended with the job succeeded, 0 items, attempt_count still 1 and the
\* table as it found it
C33_Witness ==
  \E w \in StoreRunIds :
    /\ workers[w].pc = "succeeded"
    /\ workers[w].raw = << >>
    /\ jobs[workers[w].page].status = "succeeded"
    /\ jobs[workers[w].page].items_extracted = 0
    /\ jobs[workers[w].page].attempt_count = 1
    /\ lineItems[workers[w].page] # NoRows
    /\ lineItems[workers[w].page] = workers[w].prev

\* C34 (attempt budget): in every reachable state each Page Job has
\* attempt_count <= max_attempts, and a job in status failed has
\* attempt_count = max_attempts, also when the job is dispatched more than
\* once.
C34_AttemptBudget ==
  \A p \in DOMAIN jobs :
    /\ jobs[p].attempt_count <= max_attempts
    /\ (jobs[p].status = "failed" => jobs[p].attempt_count = max_attempts)

\* invocation w ends in this step with the given pc
StoreRunEnds(w, pc) == workers[w].pc # pc /\ workers'[w].pc = pc

\* the insert of invocation w was acknowledged for every row
InsertAcknowledged(r) == r.inserted = Len(r.extracted)

\* the insert of invocation w failed or reported row errors
InsertFailed(r) == r.inserted >= 0 /\ r.inserted < Len(r.extracted)

TerminalDocStatus == {"completed", "partial_failure", "failed"}

\* C36 (terminal document status is stable): no step of the Orchestrator,
\* of a Worker or of the Sweeper takes the Document from completed,
\* partial_failure or failed to a status that is not one of these three
\* (the pipeline has no reprocess step).
C36_TerminalDocStable ==
  [][doc.status \in TerminalDocStatus => doc'.status \in TerminalDocStatus]_vars

(***************************************************************************)
(* SpecDispatch: one eob-enqueue invocation from its page loop to the end  *)
(* of its dispatch phase, for a document of up to MaxDispatchPages pages.  *)
(* An earlier invocation that stopped in its page loop may have left job   *)
(* rows for the first pages.                                               *)
(***************************************************************************)
MaxDispatchPages == 7
BATCH_SIZE == 3

DispatchPages == 1..MaxDispatchPages

\* the invocation at the head of PHASE 1; fetches: the number of Worker
\* requests sent per page; outstanding: the requests of the current batch
\* that have not settled; running: the pages whose request reached the
\* gateway
InitDispatchRun ==
  [pc |-> "pages", page |-> 1, enqueuedJobs |-> << >>, created |-> {}, b |-> 0,
   outstanding |-> {}, fetches |-> [p \in DispatchPages |-> 0],
   workerTriggers |-> 0, running |-> {}]

\* B: a job row is found for the page: continue
DispPageSkip(o) ==
  /\ InPageLoop(o)
  /\ orch[o].page \in DOMAIN jobs
  /\ NextPage(o, orch[o])
  /\ UNCHANGED jobs
  /\ objects' = UploadedObjects(o)
  /\ UNCHANGED <<export, reproc, lineItems, ledgerVars, pdfPages, doc, inflight, sweep, hist, workers>>

\* C: enqueue_eob_page_job and enqueuedJobs.push; reached for an existing
\*    row too when the existence check errors
DispPageEnqueue(o) ==
  /\ InPageLoop(o)
  /\ jobs' = enqueue_eob_page_job(jobs, orch[o].page, pdfPages)
  /\ NextPage(o, [orch[o] EXCEPT
       !.enqueuedJobs = Append(@, orch[o].page),
       !.created = IF orch[o].page \in DOMAIN jobs THEN @ ELSE @ \cup {orch[o].page}])
  /\ objects' = UploadedObjects(o)
  /\ UNCHANGED <<export, reproc, lineItems, ledgerVars, pdfPages, doc, inflight, sweep, hist, workers>>

\* A or C fails: refundCredits and return 500, before any dispatch
DispPageFail(o) ==
  /\ InPageLoop(o)
  /\ SetOrch(o, [orch[o] EXCEPT !.pc = "failed"])
  /\ UNCHANGED jobs
  /\ UNCHANGED <<export, reproc, lineItems, ledgerVars, pdfPages, doc, objects, inflight, sweep, hist, workers>>

\* enqueuedJobs.slice(b, b + BATCH_SIZE)
batch_slice(enqueuedJobs, b) ==
  {enqueuedJobs[i] : i \in {j \in 1..Len(enqueuedJobs) : j > b /\ j <= b + BATCH_SIZE}}

\* batch.map(async ...): the fetch of every job of the batch is sent
DispBatchFire(o) ==
  /\ orch[o].pc = "dispatch"
  /\ orch[o].b < Len(orch[o].enqueuedJobs)
  /\ LET batch == batch_slice(orch[o].enqueuedJobs, orch[o].b) IN
       SetOrch(o, [orch[o] EXCEPT
         !.pc = "await",
         !.outstanding = @ \cup batch,
         !.fetches = [p \in DispatchPages |-> IF p \in batch THEN @[p] + 1 ELSE @[p]]])
  /\ UNCHANGED jobs
  /\ UNCHANGED <<export, reproc, lineItems, ledgerVars, pdfPages, doc, objects, inflight, sweep, hist, workers>>

\* one request settles: answered, aborted after 3 s, or failed on the way
\* (.catch swallows it); each pushes 'triggered'
DispSettle(o) ==
  /\ orch[o].pc \in {"await", "sleep", "dispatch"}
  /\ \E p \in orch[o].outstanding : \E outcome \in {"accepted", "aborted", "errored"} :
       SetOrch(o, [orch[o] EXCEPT
         !.outstanding = @ \ {p},
         !.workerTriggers = @ + 1,
         !.running = IF outcome = "errored" THEN @ ELSE @ \cup {p}])
  /\ UNCHANGED jobs
  /\ UNCHANGED <<export, reproc, lineItems, ledgerVars, pdfPages, doc, objects, inflight, sweep, hist, workers>>

DispBatchSettled_NoAwait(o) ==
  /\ orch[o].pc = "await"
  /\ SetOrch(o, [orch[o] EXCEPT
       !.b = @ + BATCH_SIZE,
       !.pc = IF orch[o].b + BATCH_SIZE < Len(orch[o].enqueuedJobs)
                THEN "sleep" ELSE "dispatch"])
  /\ UNCHANGED jobs
  /\ UNCHANGED <<export, reproc, lineItems, ledgerVars, pdfPages, doc, objects, inflight, sweep, hist, workers>>

\* await Promise.allSettled(batchPromises); b += BATCH_SIZE
DispBatchSettled(o) ==
  /\ orch[o].pc = "await"
  /\ orch[o].outstanding = {}
  /\ SetOrch(o, [orch[o] EXCEPT
       !.b = @ + BATCH_SIZE,
       !.pc = IF orch[o].b + BATCH_SIZE < Len(orch[o].enqueuedJobs)
                THEN "sleep" ELSE "dispatch"])
  /\ UNCHANGED jobs
  /\ UNCHANGED <<export, reproc, lineItems, ledgerVars, pdfPages, doc, objects, inflight, sweep, hist, workers>>

\* await sleep(BATCH_DELAY_MS)
DispSleep(o) ==
  /\ orch[o].pc = "sleep"
  /\ SetOrch(o, [orch[o] EXCEPT !.pc = "dispatch"])
  /\ UNCHANGED jobs
  /\ UNCHANGED <<export, reproc, lineItems, ledgerVars, pdfPages, doc, objects, inflight, sweep, hist, workers>>

\* the loop is over: on to the final status check
DispPhaseEnd(o) ==
  /\ orch[o].pc = "dispatch"
  /\ orch[o].b >= Len(orch[o].enqueuedJobs)
  /\ orch[o].outstanding = {}
  /\ SetOrch(o, [orch[o] EXCEPT !.pc = "finalwrite"])
  /\ UNCHANGED jobs
  /\ UNCHANGED <<export, reproc, lineItems, ledgerVars, pdfPages, doc, objects, inflight, sweep, hist, workers>>

InitDispatch ==
  /\ credits = [t \in Tenants |-> 0]
  /\ credits0 = credits
  /\ rowLock = [t \in Tenants |-> 0]
  /\ calls = [c \in CallIds |-> [pc |-> "done", practice |-> "p2", amount |-> 1,
                                 v_balance |-> 0, result |-> "none"]]
  /\ refundCount = [t \in Tenants |-> 0]
  /\ pdfPages \in DispatchPages
  /\ doc = [status |-> "queued", total_pages |-> pdfPages, items_extracted |-> 0,
            stale |-> FALSE]
  /\ \E k \in 0..pdfPages :
       /\ jobs = enqueue_pages(k, pdfPages)
       /\ objects = 1..k
  /\ orch = [o \in {1} |-> InitDispatchRun]
  /\ inflight = [p \in Pages |-> 0]
  /\ sweep = [s \in SweepIds |-> InitSweep]
  /\ hist = [InitHist EXCEPT !.charged = pdfPages]
  /\ workers = [w \in WorkerIds |-> InitWorker]
  /\ lineItems = NoLineItems
  /\ reproc = InitReproc
  /\ export = InitExport

NextDispatch ==
  \/ DispPageSkip(1)
  \/ DispPageEnqueue(1)
  \/ DispPageFail(1)
  \/ DispBatchFire(1)
  \/ DispSettle(1)
  \/ DispBatchSettled(1)
  \/ DispSleep(1)
  \/ DispPhaseEnd(1)

SpecDispatch == InitDispatch /\ [][NextDispatch]_vars

(***************************************************************************)
(* Claim on the Orchestrator's dispatch phase (SpecDispatch).              *)
(***************************************************************************)
\* a Worker request is sent in this step
FetchSent == \E p \in DispatchPages : orch'[1].fetches[p] > orch[1].fetches[p]

\* C37 (bounded dispatch): at most BATCH_SIZE (3) Worker requests of the
\* invocation are unsettled at any time; no request has been sent while a
\* page of the document lacks its job row; no job is sent more than once
\* and, at the end of the dispatch phase, every job this invocation created
\* has been sent exactly once; and a step that sends requests starts from a
\* state in which every earlier request has settled.
C37_BoundedDispatch ==
  /\ [](/\ Cardinality(orch[1].outstanding) <= BATCH_SIZE
        /\ (\E p \in DispatchPages : orch[1].fetches[p] > 0)
              => (1..pdfPages) \subseteq DOMAIN jobs
        /\ \A p \in DispatchPages : orch[1].fetches[p] <= 1
        /\ orch[1].pc = "finalwrite"
              => \A p \in orch[1].created : orch[1].fetches[p] = 1)
  /\ [][FetchSent => orch[1].outstanding = {}]_vars

\* a document of 7 pages, 2 of which had their job rows: the invocation
\* created 5 jobs, sent them in the batches 3 + 2, and all have settled
C37_Witness ==
  /\ orch[1].pc = "finalwrite"
  /\ pdfPages = 7
  /\ orch[1].created = 3..7
  /\ orch[1].b = 6
  /\ orch[1].workerTriggers = 5
  /\ \A p \in 3..7 : orch[1].fetches[p] = 1

(***************************************************************************)
(* Claim on the two rollups (Spec).                                        *)
(***************************************************************************)
\* the Document after the rollup of succeed_eob_page_job (02, l.62-86) or
\* fail_eob_page_job (03, l.59-86) for the job rows J, all terminal: the
\* status, items_extracted (the all-failed branch does not assign it)
rpc_rollup(J, D) ==
  LET v_total_pages == J[CHOOSE q \in DOMAIN J : TRUE].total_pages
      status == succeed_rollup_or_failed(J, v_total_pages)
  IN [D EXCEPT !.status = status,
               !.items_extracted = IF status = "failed" THEN @ ELSE succeeded_items(J),
               !.stale = FALSE]

\* pass s runs its orphan finalization in this step
OrphanFinalizeStep(s) ==
  /\ sweep[s].pc = "orphan"
  /\ sweep[s].orphan
  /\ orphan_finalizable(sweep[s].orphanPages, jobs)
  /\ sweep'[s].pc = "done"

\* C38 (the Sweeper's rollup refines the Job Store's): a step in which a
\* Sweeper pass finalizes the Document leaves it with the status and
\* items_extracted the RPC rollup gives for the same job rows, and changes
\* the credit balances no more than that rollup does (the RPCs refund
\* nothing).
C38_SweeperRollupRefines ==
  [][\A s \in SweepIds :
       OrphanFinalizeStep(s) =>
         /\ doc'.status = rpc_rollup(jobs, doc).status
         /\ doc'.items_extracted = rpc_rollup(jobs, doc).items_extracted
         /\ credits' = credits]_vars

(***************************************************************************)
(* SpecAdjust: the encoder's service-line loop body applied to one line,   *)
(* for every combination of its amounts (integer cents, null allowed).     *)
(***************************************************************************)
AdjRows ==
  [claim_number : {"C1"}, patient_name : {"JANE DOE"},
   billed_amount : {NullAmount, 2, 3}, paid_amount : {0, 1, 3},
   adjustment_amount : {NullAmount, 0, 1, 2},
   contractual_adjustment : {NullAmount, 0, 1, 2},
   deductible_amount : {NullAmount, 0, 1},
   coinsurance_amount : {NullAmount, 1},
   copay_amount : {NullAmount, 1}]

EncodeLine ==
  /\ export.pc = "idle"
  /\ export' = [export EXCEPT
       !.pc = "built",
       !.allTransactionSegments = line_segments(export.docs[1][1])]
  /\ UNCHANGED <<reproc, lineItems, ledgerVars, pdfPages, doc, jobs, objects,
                 orch, inflight, sweep, hist, workers>>

InitAdjust ==
  /\ PipelineAtRest
  /\ \E line \in AdjRows : export = [InitExport EXCEPT !.docs = <<<<line>>>>]

NextAdjust == EncodeLine

SpecAdjust == InitAdjust /\ [][NextAdjust]_vars

(***************************************************************************)
(* Claim on the adjustment segments (SpecAdjust).                          *)
(***************************************************************************)
\* the granular categories of a line with their CAS codes
Categories ==
  [contractual_adjustment |-> "CO*45", deductible_amount |-> "PR*1",
   coinsurance_amount |-> "PR*2", copay_amount |-> "PR*3"]

NonZeroCategories(line) == {f \in DOMAIN Categories : line[f] # NullAmount /\ line[f] # 0}

RECURSIVE SumOver(_, _)
SumOver(line, F) ==
  IF F = {} THEN 0
  ELSE LET f == CHOOSE x \in F : TRUE IN line[f] + SumOver(line, F \ {f})

\* the line's total adjustment: adjustment_amount, else billed minus paid
TotalAdjustment(line) ==
  IF line.adjustment_amount # NullAmount /\ line.adjustment_amount # 0
    THEN line.adjustment_amount
    ELSE (IF line.billed_amount = NullAmount THEN 0 ELSE line.billed_amount)
         - (IF line.paid_amount = NullAmount THEN 0 ELSE line.paid_amount)

RECURSIVE SumSegs(_)
SumSegs(segs) == IF segs = << >> THEN 0 ELSE Head(segs).a + SumSegs(Tail(segs))

CasOf(segs) == SelectSeq(segs, LAMBDA g : g.tag = "CAS")

\* the emission rule of the claim for the CAS segments cas of line
CasRule(line, cas) ==
  LET nz == NonZeroCategories(line)
      gap == TotalAdjustment(line) - SumOver(line, nz)
  IN  IF nz # {}
        THEN /\ \A f \in nz :
                  Cardinality({i \in 1..Len(cas) :
                     cas[i].id = Categories[f] /\ cas[i].a = line[f]}) = 1
             /\ Len(cas) = Cardinality(nz) + (IF gap > 0 THEN 1 ELSE 0)
             /\ gap > 0 => cas[Len(cas)].a = gap
        ELSE IF TotalAdjustment(line) > 0
               THEN Len(cas) = 1 /\ cas[1].a = TotalAdjustment(line)
               ELSE cas = << >>

====
